---- MODULE Spec2Model ----
(***************************************************************************)
(* Model of the Skull-V2 playback scheduler (src/sync_player.py).          *)
(*                                                                         *)
(* One control thread issues load/play/pause/resume/stop calls one after   *)
(* another (as the HTTP layer does for one client); every call runs        *)
(* statement by statement and interleaves with the frame-pump threads      *)
(* (SyncPlayer._runner) that play() and resume() start.                    *)
(*                                                                         *)
(* Time is counted in ticks of TickMs milliseconds.  The program uses      *)
(* time.time() and _start_time only through their difference, so the model *)
(* keeps that difference, elapsed, and the time each sleeping thread still *)
(* has to sleep.  A pump thread that has ended gives its slot back.        *)
(*                                                                         *)
(* Further specifications follow the scheduler's: SpecFrame, the body of   *)
(* one frame (channel flags, gaze blending) with the gaze follower thread, *)
(* SpecLoop and SpecFade, the background loop engine (src/loop_player.py), *)
(* SpecTimeline (src/timeline.py), SpecGaze, SpecGazeLive and SpecRecv     *)
(* (src/gaze_receiver.py), SpecHw (src/rpi_hardware.py), SpecPace and      *)
(* SpecCentre (the pacing and the centring rule of src/sync_player.py).    *)
(* Each has its own next-state relation and leaves the variables of the    *)
(* others unchanged.                                                       *)
(***************************************************************************)
EXTENDS Integers, Sequences, FiniteSets, TLC

\* ---------------------------------------------------------------- bounds
MaxThreads == 2      \* pump threads that exist at the same time
MaxTime == 1         \* range of the elapsed playback time, in ticks
MaxCalls == 3        \* control calls issued during one behaviour
MaxInputs == 3       \* set_channels / track_enable / datagram events
MaxTicks == 2        \* iterations of the gaze follower that move a motor
MaxLoopCalls == 4    \* control calls made on the loop engine
MaxBlocks == 2       \* render callbacks
MaxFrames == 3       \* largest block PortAudio asks for, in sample frames
MaxTimers == 2       \* resume timers alive at the same time
MaxFades == 2        \* ramps programmed during one behaviour
FadeLen == 2         \* int(sr * fade_ms / 1000) for the default fade_ms

\* ------------------------------------------------------------- constants
TickMs == 10         \* one tick: the 0.01 s quantum of the pause loop
LateToleranceMs == 50     \* "if delay < -0.05"

None == "none"
NoAttr == -1         \* _resume_from_ms attribute absent

Threads == 1..MaxThreads

\* the four motor channels, in the order the frame body handles them
Channels == {"jaw", "neck", "eye_left", "eye_right"}
GazeChannels == {"neck", "eye_left", "eye_right"}

\* Angles are counted in hundredths of a degree.
\* SyncPlayer._last_target as the constructor leaves it
InitialTarget ==
    [c \in Channels |-> IF c = "jaw" THEN 13000 ELSE 9000]

\* The angles of frame i of the loaded Timeline
FrameAngle(c, i) ==
    CASE c = "jaw"       -> 12000 + 1000 * i
      [] c = "neck"      -> 9000 + 500 * i
      [] c = "eye_left"  -> 9000 - 200 * i
      [] c = "eye_right" -> 9000 + 200 * i

\* What GazeReceiver.latest may hold (the receive loop stores any JSON value):
\*   "none"      nothing received yet
\*   "track"     an object, recent, mode "track", numeric yaw for every channel
\*   "other"     an object, recent, another mode
\*   "stale"     an object with mode "track" older than its ttl_ms
\*   "notobject" a JSON value that is not an object (a non-empty array)
\*   "badts"     an object whose ts is not a number
\*   "nofields"  an object, recent, mode "track", without neck / eyeL / eyeR
\*   "badyaw"    an object, recent, mode "track", whose yaw_deg are not numbers
GazeShapes == {"none", "track", "other", "stale", "notobject", "badts",
               "nofields", "badyaw"}

\* yaw_deg carried by the "track" datagram for each channel
GazeYaw(c) ==
    CASE c = "neck"      -> 2000
      [] c = "eye_left"  -> 1000
      [] c = "eye_right" -> -100
      [] OTHER           -> 0

\* Session directories the control layer may pass to load()
Dirs == {"a"}

\* What load() finds on disk when it is called:
\*   "notfound"    no directory, no *.json or no *.mp3 (lines 97-107)
\*   "formaterror" Timeline.from_json raises (line 120)
\*   "decodeerror" AudioSegment.from_mp3 raises (line 121)
DiskStates == {"ok", "notfound", "formaterror", "decodeerror"}

\* timestamp_ms of the frames of the Timeline stored in each directory
TimelineOf(d) ==
    CASE d = "a" -> <<0, 10>>
      [] OTHER   -> <<>>

\* reasons the control layer passes to stop(); play() passes the default "stop"
StopReasons == {"skip"}

VARIABLES
    \* ---- SyncPlayer fields
    running, paused, stop_reason, resume_from_ms, pause_pos_ms,
    session_dir, timeline, audio, thread, play_obj,
    \* ---- time.time() - self._start_time, in ticks
    elapsed,
    \* ---- audio output objects (one per pump thread that opened one)
    audio_playing, audio_from,
    \* ---- control thread
    cpc, creason, cdir, cdisk, cret, ncalls,
    \* ---- observation: the last call begun was a pause() or a resume()
    \* that found its condition false and returned at once
    ignored,
    \* ---- pump threads: position and locals of _runner
    rpc, ridx, rstart, rreason, rerr, rsleep, rwaitobj, rtl,
    \* ---- observations (history of what the program did)
    rcur, cbThisRun, runDelivered, rneutral, endedBy,
    quiet, stopNeutral, stopRaised, stopTimedOut,
    preLoad, loadActive, loadRaised,
    \* ---- SyncPlayer fields used by the frame body and the gaze follower
    track_enable, channels, last_target,
    \* ---- GazeReceiver.latest
    latest,
    \* ---- one pump thread seen frame by frame: position, frame, reason
    fpc, fidx, freason,
    \* ---- the gaze follower thread: position and locals
    gpc, gcmd, gch,
    \* ---- observations of the motor facade and of the servo log
    motor, frozen_log, gmotor, committed, ninputs, nticks,
    \* ---- LoopPlayer fields
    loop, sr, n, pos, user_enabled, suppression_count,
    vol, vol_target, fade_samples_left, fade_step, resume_timer, stream,
    \* ---- threading.Timer objects made by release_suppression
    timers,
    \* ---- the render callback: position and locals
    cbpc, cb,
    \* ---- observations of the loop engine
    out, rendered, loadgen, cbclean, owed, stale, nlcalls, nblocks, nfades,
    sessions, paired,
    \* ---- observation: what the last control call returned when it was a
    \* set_enabled(), {} otherwise
    enabled_ret,
    \* ---- Timeline.from_json and _interp: argument, result, position
    doc, tl_frames, kf, qt, interp_ret, tpc,
    \* ---- GazeReceiver seen with its clock: latest, time.time(), the
    \* result of get_command(), _deferred, position
    stored, clock, got, deferred, gzpc,
    \* ---- Hardware: SPECS[...].pitch_offset, and the last
    \* set_named_angle call: name, deg, converted angle, pulse, logged angle
    pitch_offset, hw_name, hw_deg, hw_d, hw_us, hw_logged,
    \* ---- the pacing of one _runner: locals frame_count and
    \* skipped_frames, what happened to each frame, HIGH_SKIP_RATE, position
    frame_count, skipped_frames, pace_log, high_skip, ppc,
    \* ---- one centring iteration of the gaze follower: the yaw of the
    \* command per channel, dt, the channel flags, LastTarget before and
    \* after, the motor commands issued, position
    yaw_in, dt_in, flags_in, target_before, target_after, centre_motor, cnpc,
    \* ---- the GazeReceiver objects of one process, and the class attribute
    \* GazeReceiver._started_in_process
    receivers, started_in_process

playerVars == <<running, paused, stop_reason, resume_from_ms, pause_pos_ms,
                session_dir, timeline, audio, thread, play_obj, elapsed>>
audioVars == <<audio_playing, audio_from>>
ctlVars == <<cpc, creason, cdir, cdisk, cret, ncalls, ignored>>
runVars == <<rpc, ridx, rstart, rreason, rerr, rsleep, rwaitobj, rtl>>
obsRunVars == <<rcur, cbThisRun, runDelivered, rneutral, endedBy>>
obsStopVars == <<stopNeutral, stopRaised, stopTimedOut>>
obsLoadVars == <<preLoad, loadActive, loadRaised>>
obsCtlVars == <<quiet, obsStopVars, obsLoadVars>>

schedVars == <<playerVars, audioVars, ctlVars, runVars, obsRunVars,
               obsCtlVars>>
frameVars == <<track_enable, channels, last_target, latest, fpc, fidx, freason,
               gpc, gcmd, gch, motor, frozen_log, gmotor, committed, ninputs,
               nticks>>
loopVars == <<loop, sr, n, pos, user_enabled, suppression_count, vol,
              vol_target, fade_samples_left, fade_step, resume_timer, stream,
              timers, cbpc, cb, out, rendered, loadgen, cbclean, owed, stale,
              nlcalls, nblocks, nfades, sessions, paired,
              enabled_ret>>
pairVars == <<sessions, paired>>
timelineVars == <<doc, tl_frames, kf, qt, interp_ret, tpc>>
gazeVars == <<stored, clock, got, deferred, gzpc>>
hwVars == <<pitch_offset, hw_name, hw_deg, hw_d, hw_us, hw_logged>>
paceVars == <<frame_count, skipped_frames, pace_log, high_skip, ppc>>
centreVars == <<yaw_in, dt_in, flags_in, target_before, target_after,
                centre_motor, cnpc>>
recvVars == <<receivers, started_in_process>>
unitVars == <<timelineVars, gazeVars, hwVars, paceVars, centreVars, recvVars>>
otherVars == <<frameVars, loopVars, unitVars>>

vars == <<schedVars, otherVars>>

\* ----------------------------------------------------------------- Init
\* SyncPlayer.__init__ (lines 37-86); no pump thread exists yet
Init ==
    /\ running = FALSE
    /\ paused = FALSE
    /\ stop_reason = None
    /\ resume_from_ms = NoAttr
    /\ elapsed = 0
    /\ pause_pos_ms = 0
    /\ session_dir = None
    /\ timeline = None
    /\ audio = None
    /\ thread = 0
    /\ play_obj = 0
    /\ audio_playing = [t \in Threads |-> FALSE]
    /\ audio_from = [t \in Threads |-> 0]
    /\ cpc = "idle"
    /\ creason = None
    /\ cdir = None
    /\ cdisk = None
    /\ cret = "idle"
    /\ ncalls = 0
    /\ ignored = FALSE
    /\ rpc = [t \in Threads |-> "done"]
    /\ ridx = [t \in Threads |-> 1]
    /\ rstart = [t \in Threads |-> 0]
    /\ rreason = [t \in Threads |-> "completed"]
    /\ rerr = [t \in Threads |-> None]
    /\ rsleep = [t \in Threads |-> 0]
    /\ rwaitobj = [t \in Threads |-> 0]
    /\ rtl = [t \in Threads |-> None]
    /\ rcur = [t \in Threads |-> FALSE]
    /\ cbThisRun = 0
    /\ runDelivered = 0
    /\ rneutral = [t \in Threads |-> FALSE]
    /\ endedBy = [t \in Threads |-> None]
    /\ quiet = None
    /\ stopNeutral = FALSE
    /\ stopRaised = FALSE
    /\ stopTimedOut = FALSE
    /\ preLoad = <<None, None, None>>
    /\ loadActive = FALSE
    /\ loadRaised = FALSE

\* SyncPlayer.__init__ (lines 55-76), GazeReceiver.__init__ (latest = None);
\* the follower thread is started by the constructor, no pump thread exists
FrameInit ==
    /\ track_enable = FALSE
    /\ channels = [c \in Channels |-> TRUE]
    /\ last_target = InitialTarget
    /\ latest = "none"
    /\ fpc = "idle"
    /\ fidx = 1
    /\ freason = None
    /\ gpc = "check"
    /\ gcmd = "none"
    /\ gch = [c \in Channels |-> TRUE]
    /\ motor = [c \in Channels |-> {}]
    /\ frozen_log = [c \in Channels |-> {}]
    /\ gmotor = [c \in Channels |-> {}]
    /\ committed = [c \in Channels |-> {}]
    /\ ninputs = 0
    /\ nticks = 0

\* Volumes are counted in units of 1 / VolUnit, so that every fade_step
\* computed within MaxFades ramps is exact.
VolUnit == FadeLen ^ MaxFades

TimerIds == 1..MaxTimers

\* What _load_fixed_loop finds at LOOP_WAV_PATH, and data.shape[0]
LoopFiles == {"short", "long", "missing", "empty"}
LoopLength(f) ==
    CASE f = "short" -> 2
      [] f = "long"  -> 3
      [] OTHER       -> 0

NoLoop == [gen |-> 0, len |-> 0]
NoLocals == [loop |-> NoLoop, n |-> 0, pos |-> 0, vol |-> 0, vol_target |-> 0,
             fade_left |-> 0, fade_step |-> 0, frames |-> 0, gen |-> 0]

\* LoopPlayer.__init__ (lines 52-89): the fields, then _load_fixed_loop and
\* _open_stream; when the load raises, the stream is never opened
LoopInitWith(f) ==
    /\ IF LoopLength(f) > 0
       THEN /\ loop = [gen |-> 1, len |-> LoopLength(f)]
            /\ sr = TRUE
            /\ n = LoopLength(f)
            /\ stream = TRUE
            /\ loadgen = 1
       ELSE /\ loop = NoLoop
            /\ sr = FALSE
            /\ n = 0
            /\ stream = FALSE
            /\ loadgen = 0
    /\ pos = 0
    /\ user_enabled = FALSE
    /\ suppression_count = 0
    /\ vol = 0
    /\ vol_target = 0
    /\ fade_samples_left = 0
    /\ fade_step = 0
    /\ resume_timer = 0
    /\ timers = [i \in TimerIds |-> "unused"]
    /\ cbpc = "idle"
    /\ cb = NoLocals
    /\ out = <<>>
    /\ rendered = 0
    /\ cbclean = FALSE
    /\ owed = 0
    /\ stale = {}
    /\ nlcalls = 0
    /\ enabled_ret = {}
    /\ nblocks = 0
    /\ nfades = 0
    /\ sessions = 0
    /\ paired = TRUE

LoopInit == \E f \in LoopFiles : LoopInitWith(f)

\* threading.Thread.is_alive()
IsAlive(t) == t # 0 /\ rpc[t] # "done"

\* ------------------------------------------------------- helper operators
\* a slot for a new pump thread and its audio output object
Awaited(t) == \E u \in Threads : rpc[u] = "waiting" /\ rwaitobj[u] = t
FreeSlots == {t \in Threads : rpc[t] = "done" /\ play_obj # t /\ ~Awaited(t)}
NewSlot == CHOOSE t \in FreeSlots : \A u \in FreeSlots : t <= u

\* the locals of _runner (lines 327-330) and what was observed of a thread
FreshLocals(t) ==
    /\ ridx' = [ridx EXCEPT ![t] = 1]
    /\ rstart' = [rstart EXCEPT ![t] = 0]
    /\ rreason' = [rreason EXCEPT ![t] = "completed"]
    /\ rerr' = [rerr EXCEPT ![t] = None]
    /\ rsleep' = [rsleep EXCEPT ![t] = 0]
    /\ rwaitobj' = [rwaitobj EXCEPT ![t] = 0]
    /\ rtl' = [rtl EXCEPT ![t] = None]
    /\ rneutral' = [rneutral EXCEPT ![t] = FALSE]
    /\ endedBy' = [endedBy EXCEPT ![t] = None]

\* A pump thread that stop(reason) finds Running or Paused: it has not
\* failed and has not finished by itself (its audio is still playing).
EndableByStop(t) ==
    \/ rpc[t] \in {"begin", "mark", "unpause", "check", "spin", "sched",
                   "deliver"}
    \/ /\ rpc[t] = "wait"
       /\ rreason[t] = "completed"
       /\ play_obj # 0 /\ audio_playing[play_obj]
    \/ /\ rpc[t] = "waiting"
       /\ rreason[t] = "completed"
       /\ audio_playing[rwaitobj[t]]

CallBegins == /\ cpc = "idle"
              /\ ncalls < MaxCalls
              /\ ncalls' = ncalls + 1

\* the observations kept about one control call are dropped when it returns
StopObsReset == /\ stopNeutral' = FALSE
                /\ stopRaised' = FALSE
                /\ stopTimedOut' = FALSE
LoadObsReset == /\ preLoad' = <<None, None, None>>
                /\ loadActive' = FALSE
                /\ loadRaised' = FALSE

\* ------------------------------------- _start_session() and load()
\* web_app.py lines 688-690: player.load(session_dir); player.play()
\* sync_player.py lines 94-107: session_dir is assigned, then the
\* directory is checked
LoadCall(d, disk) ==
    /\ CallBegins
    /\ ignored' = FALSE
    /\ cdir' = d
    /\ cdisk' = disk
    /\ preLoad' = <<session_dir, timeline, audio>>
    /\ loadActive' = (running \/ paused)
    /\ session_dir' = d
    /\ IF disk = "notfound"
         THEN /\ cpc' = "load_ret"
              /\ loadRaised' = TRUE
         ELSE /\ cpc' = "load_tl"
              /\ loadRaised' = FALSE
    /\ UNCHANGED <<elapsed, running, paused, stop_reason, resume_from_ms,
                   pause_pos_ms, timeline, audio, thread, play_obj>>
    /\ UNCHANGED <<audioVars, creason, cret, runVars, obsRunVars,
                   quiet, obsStopVars>>
    /\ UNCHANGED otherVars

\* line 120: self.timeline = Timeline.from_json(json_file)
LoadTimeline ==
    /\ cpc = "load_tl"
    /\ IF cdisk = "formaterror"
         THEN /\ cpc' = "load_ret"
              /\ loadRaised' = TRUE
              /\ UNCHANGED timeline
         ELSE /\ cpc' = "load_audio"
              /\ timeline' = cdir
              /\ UNCHANGED loadRaised
    /\ UNCHANGED <<elapsed, running, paused, stop_reason, resume_from_ms,
                   pause_pos_ms, session_dir, audio, thread, play_obj>>
    /\ UNCHANGED <<audioVars, creason, cdir, cdisk, cret, ncalls, ignored,
                   runVars, obsRunVars, quiet, obsStopVars, preLoad,
                   loadActive>>
    /\ UNCHANGED otherVars

\* line 121: self.audio = AudioSegment.from_mp3(mp3_file)
LoadAudio ==
    /\ cpc = "load_audio"
    /\ IF cdisk = "decodeerror"
         THEN /\ loadRaised' = TRUE
              /\ UNCHANGED audio
         ELSE /\ audio' = cdir
              /\ UNCHANGED loadRaised
    /\ cpc' = "load_ret"
    /\ UNCHANGED <<elapsed, running, paused, stop_reason, resume_from_ms,
                   pause_pos_ms, session_dir, timeline, thread, play_obj>>
    /\ UNCHANGED <<audioVars, creason, cdir, cdisk, cret, ncalls, ignored,
                   runVars, obsRunVars, quiet, obsStopVars, preLoad,
                   loadActive>>
    /\ UNCHANGED otherVars

\* load() returns (lines 126-133) and _start_session goes on to play(), or
\* load() raises and _start_session returns False (web_app.py lines 691-695)
LoadReturn ==
    /\ cpc = "load_ret"
    /\ cpc' = IF loadRaised THEN "idle" ELSE "play1"
    /\ cdir' = None
    /\ cdisk' = None
    /\ LoadObsReset
    /\ UNCHANGED <<playerVars, audioVars, creason, cret, ncalls, ignored,
                   runVars, obsRunVars, quiet, obsStopVars>>
    /\ UNCHANGED otherVars

\* ------------------------------------------------------------ stop()
\* line 550: stop(reason) is entered from the control layer
StopCall(reason) ==
    /\ CallBegins
    /\ ignored' = FALSE
    /\ cpc' = "stop1"
    /\ creason' = reason
    /\ cret' = "idle"
    /\ quiet' = None
    /\ UNCHANGED <<playerVars, audioVars, cdir, cdisk, runVars, obsRunVars,
                   obsStopVars, obsLoadVars>>
    /\ UNCHANGED otherVars

\* lines 552-553: with self._lock: self._stop_reason = reason
StopSetReason ==
    /\ cpc = "stop1"
    /\ stop_reason' = creason
    /\ endedBy' = [t \in Threads |->
                     IF endedBy[t] = None /\ EndableByStop(t)
                       THEN creason ELSE endedBy[t]]
    /\ cpc' = "stop2"
    /\ UNCHANGED <<elapsed, running, paused, resume_from_ms, pause_pos_ms,
                   session_dir, timeline, audio, thread, play_obj>>
    /\ UNCHANGED <<audioVars, creason, cdir, cdisk, cret, ncalls, ignored,
                   runVars, rcur, cbThisRun, runDelivered, rneutral,
                   obsCtlVars>>
    /\ UNCHANGED otherVars

\* lines 555-562: clear _running and _paused; if self._play_obj: stop it
\* (an exception of the audio object is caught and logged)
StopSignal ==
    /\ cpc = "stop2"
    /\ running' = FALSE
    /\ paused' = FALSE
    /\ IF play_obj # 0
         THEN audio_playing' = [audio_playing EXCEPT ![play_obj] = FALSE]
         ELSE UNCHANGED audio_playing
    /\ cpc' = "stop5"
    /\ UNCHANGED <<elapsed, stop_reason, resume_from_ms, pause_pos_ms,
                   session_dir, timeline, audio, thread, play_obj>>
    /\ UNCHANGED <<audio_from, creason, cdir, cdisk, cret, ncalls, ignored,
                   runVars, obsRunVars, obsCtlVars>>
    /\ UNCHANGED otherVars

\* A faulty join: when the timeout elapses with the thread still alive the
\* call raises out of stop() instead of logging THREAD_STOP_TIMEOUT.
StopJoinRaisesOnTimeout ==
    /\ cpc = "stop5"
    /\ \E timedOut \in BOOLEAN :
          /\ timedOut => IsAlive(thread)
          /\ ~timedOut => ~IsAlive(thread)
          /\ stopTimedOut' = timedOut
          /\ stopRaised' = timedOut
          /\ cpc' = IF timedOut THEN "stop_ret" ELSE "stop6"
    /\ UNCHANGED <<playerVars, audioVars, creason, cdir, cdisk, cret, ncalls,
                   ignored, runVars, obsRunVars, quiet, stopNeutral,
                   obsLoadVars>>
    /\ UNCHANGED otherVars

\* lines 564-569: join(timeout=2.0); the call goes on when the thread has
\* exited, or when the timeout elapses with the thread still alive
StopJoin ==
    /\ cpc = "stop5"
    /\ \E timedOut \in BOOLEAN :
          /\ timedOut => IsAlive(thread)
          /\ ~timedOut => ~IsAlive(thread)
          /\ stopTimedOut' = timedOut
    /\ cpc' = "stop6"
    /\ UNCHANGED <<playerVars, audioVars, creason, cdir, cdisk, cret, ncalls,
                   ignored, runVars, obsRunVars, quiet, stopNeutral,
                   stopRaised, obsLoadVars>>
    /\ UNCHANGED otherVars

\* lines 570-571: self.hw.neutral(); servo_logger.end_session()
StopNeutral ==
    /\ cpc = "stop6"
    /\ stopNeutral' = TRUE
    /\ cpc' = "stop_ret"
    /\ UNCHANGED <<playerVars, audioVars, creason, cdir, cdisk, cret, ncalls,
                   ignored, runVars, obsRunVars, quiet, stopRaised,
                   stopTimedOut, obsLoadVars>>
    /\ UNCHANGED otherVars

\* stop() returns: to the control layer, or into play() (line 513)
StopReturn ==
    /\ cpc = "stop_ret"
    /\ IF cret = "play"
         THEN /\ cpc' = "play2"
              /\ UNCHANGED quiet
         ELSE /\ cpc' = "idle"
              /\ quiet' = "stopped"
    /\ creason' = None
    /\ cret' = "idle"
    /\ StopObsReset
    /\ UNCHANGED <<playerVars, audioVars, cdir, cdisk, ncalls, ignored,
                   runVars, obsRunVars, obsLoadVars>>
    /\ UNCHANGED otherVars

\* ------------------------------------------------------------ play()
\* lines 512-513: if self._thread and self._thread.is_alive(): self.stop()
PlayCall ==
    /\ cpc = "play1"
    /\ quiet' = None
    /\ IF IsAlive(thread)
         THEN /\ cpc' = "stop1"
              /\ creason' = "stop"
              /\ cret' = "play"
         ELSE /\ cpc' = "play2"
              /\ UNCHANGED <<creason, cret>>
    /\ UNCHANGED <<playerVars, audioVars, cdir, cdisk, ncalls, ignored,
                   runVars, obsRunVars, obsStopVars, obsLoadVars>>
    /\ UNCHANGED otherVars

\* lines 515-519: drop _resume_from_ms, start a new runner thread
PlayStart ==
    /\ cpc = "play2"
    /\ FreeSlots # {}
    /\ resume_from_ms' = NoAttr
    /\ thread' = NewSlot
    /\ rpc' = [rpc EXCEPT ![NewSlot] = "begin"]
    /\ rcur' = [t \in Threads |-> t = NewSlot]
    /\ cbThisRun' = 0
    /\ runDelivered' = 0
    /\ cpc' = "idle"
    /\ UNCHANGED <<elapsed, running, paused, stop_reason, pause_pos_ms,
                   session_dir, timeline, audio, play_obj>>
    /\ UNCHANGED <<audioVars, creason, cdir, cdisk, cret, ncalls, ignored,
                   ridx, rstart, rreason, rerr, rsleep, rwaitobj, rtl,
                   rneutral, endedBy, obsCtlVars>>
    /\ UNCHANGED otherVars

\* ------------------------------------------------------------ pause()
\* A faulty pause(): its condition has lost "and not self._paused.is_set()",
\* so a pause() on a paused player captures the position again.
PauseCallAgain ==
    /\ CallBegins
    /\ IF running
         THEN /\ paused' = TRUE
              /\ cpc' = "pause2"
              /\ ignored' = FALSE
         ELSE /\ UNCHANGED paused
              /\ cpc' = "idle"
              /\ ignored' = TRUE
    /\ UNCHANGED <<elapsed, running, stop_reason, resume_from_ms,
                   pause_pos_ms, session_dir, timeline, audio, thread,
                   play_obj>>
    /\ UNCHANGED <<audioVars, creason, cdir, cdisk, cret, runVars, obsRunVars,
                   obsCtlVars>>
    /\ UNCHANGED otherVars

\* lines 522-523: if running and not paused: self._paused.set()
PauseCall ==
    /\ CallBegins
    /\ IF running /\ ~paused
         THEN /\ paused' = TRUE
              /\ cpc' = "pause2"
              /\ ignored' = FALSE
         ELSE /\ UNCHANGED paused
              /\ cpc' = "idle"
              /\ ignored' = TRUE
    /\ UNCHANGED <<elapsed, running, stop_reason, resume_from_ms,
                   pause_pos_ms, session_dir, timeline, audio, thread,
                   play_obj>>
    /\ UNCHANGED <<audioVars, creason, cdir, cdisk, cret, runVars, obsRunVars,
                   obsCtlVars>>
    /\ UNCHANGED otherVars

\* line 525: _pause_pos_ms = int((time.time() - _start_time) * 1000)
\* lines 530-531: if self._play_obj: self._play_obj.stop(); pause() returns
PauseCapture ==
    /\ cpc = "pause2"
    /\ pause_pos_ms' = elapsed * TickMs
    /\ IF play_obj # 0
         THEN audio_playing' = [audio_playing EXCEPT ![play_obj] = FALSE]
         ELSE UNCHANGED audio_playing
    /\ quiet' = "paused"
    /\ cpc' = "idle"
    /\ UNCHANGED <<running, paused, stop_reason, resume_from_ms,
                   session_dir, timeline, audio, thread, play_obj, elapsed>>
    /\ UNCHANGED <<audio_from, creason, cdir, cdisk, cret, ncalls, ignored,
                   runVars, obsRunVars, obsStopVars, obsLoadVars>>
    /\ UNCHANGED otherVars

\* ------------------------------------------------------------ resume()
\* lines 534-537: if paused: self._paused.clear(); _resume_from_ms = pause pos
ResumeCall ==
    /\ CallBegins
    /\ IF paused
         THEN /\ paused' = FALSE
              /\ resume_from_ms' = pause_pos_ms
              /\ cpc' = "resume2"
              /\ ignored' = FALSE
         ELSE /\ UNCHANGED <<paused, resume_from_ms>>
              /\ cpc' = "idle"
              /\ ignored' = TRUE
    /\ quiet' = None
    /\ UNCHANGED <<elapsed, running, stop_reason, pause_pos_ms,
                   session_dir, timeline, audio, thread, play_obj>>
    /\ UNCHANGED <<audioVars, creason, cdir, cdisk, cret, runVars, obsRunVars,
                   obsStopVars, obsLoadVars>>
    /\ UNCHANGED otherVars

\* lines 542-544: if the thread is alive: self._running.clear()
ResumeClear ==
    /\ cpc = "resume2"
    /\ IF IsAlive(thread)
         THEN /\ running' = FALSE
              /\ cpc' = "resume3"
         ELSE /\ UNCHANGED running
              /\ cpc' = "resume4"
    /\ UNCHANGED <<elapsed, paused, stop_reason, resume_from_ms, pause_pos_ms,
                   session_dir, timeline, audio, thread, play_obj>>
    /\ UNCHANGED <<audioVars, creason, cdir, cdisk, cret, ncalls, ignored,
                   runVars, obsRunVars, obsCtlVars>>
    /\ UNCHANGED otherVars

\* line 545: self._thread.join()  (no timeout)
ResumeJoin ==
    /\ cpc = "resume3"
    /\ ~IsAlive(thread)
    /\ cpc' = "resume4"
    /\ UNCHANGED <<playerVars, audioVars, creason, cdir, cdisk, cret, ncalls,
                   ignored, runVars, obsRunVars, obsCtlVars>>
    /\ UNCHANGED otherVars

\* lines 546-548: self._running.set(); start a new runner thread
ResumeStart ==
    /\ cpc = "resume4"
    /\ FreeSlots # {}
    /\ running' = TRUE
    /\ thread' = NewSlot
    /\ rpc' = [rpc EXCEPT ![NewSlot] = "begin"]
    /\ rcur' = [rcur EXCEPT ![NewSlot] = TRUE]
    /\ cpc' = "idle"
    /\ UNCHANGED <<elapsed, paused, stop_reason, resume_from_ms, pause_pos_ms,
                   session_dir, timeline, audio, play_obj>>
    /\ UNCHANGED <<audioVars, creason, cdir, cdisk, cret, ncalls, ignored,
                   ridx, rstart, rreason, rerr, rsleep, rwaitobj, rtl,
                   cbThisRun, runDelivered, rneutral, endedBy, obsCtlVars>>
    /\ UNCHANGED otherVars

\* ------------------------------------------------ SyncPlayer._runner
\* line 325: assert self.timeline and self.audio (the thread dies on it)
\* lines 333-334: start_pos_ms = _resume_from_ms or 0; _stop_reason = None
RunnerBegin(t) ==
    /\ rpc[t] = "begin"
    /\ IF timeline = None \/ audio = None
         THEN /\ rpc' = [rpc EXCEPT ![t] = "done"]
              /\ rcur' = [rcur EXCEPT ![t] = FALSE]
              /\ UNCHANGED <<stop_reason, rstart>>
         ELSE /\ rpc' = [rpc EXCEPT ![t] = "open"]
              /\ rstart' = [rstart EXCEPT ![t] =
                              IF resume_from_ms = NoAttr THEN 0
                                                         ELSE resume_from_ms]
              /\ stop_reason' = None
              /\ UNCHANGED rcur
    /\ UNCHANGED <<elapsed, running, paused, resume_from_ms, pause_pos_ms,
                   session_dir, timeline, audio, thread, play_obj>>
    /\ UNCHANGED <<audioVars, ctlVars, ridx, rreason, rerr, rsleep,
                   rwaitobj, rtl, cbThisRun, runDelivered, rneutral, endedBy,
                   obsCtlVars>>
    /\ UNCHANGED otherVars

\* A faulty except clause: it records the message of the exception but
\* leaves finish_reason as it was.
RunnerOpenAudioKeepsReason(t) ==
    /\ rpc[t] = "open"
    /\ \E ok \in BOOLEAN :
         IF ok
           THEN /\ play_obj' = t
                /\ audio_playing' = [audio_playing EXCEPT ![t] = TRUE]
                /\ audio_from' = [audio_from EXCEPT ![t] = rstart[t]]
                /\ rpc' = [rpc EXCEPT ![t] = "mark"]
                /\ UNCHANGED <<rreason, rerr>>
           ELSE /\ rerr' = [rerr EXCEPT ![t] = "audio device error"]
                /\ rpc' = [rpc EXCEPT ![t] = "wait"]
                /\ UNCHANGED <<rreason, play_obj, audioVars>>
    /\ UNCHANGED <<elapsed, running, paused, stop_reason, resume_from_ms,
                   pause_pos_ms, session_dir, timeline, audio, thread>>
    /\ UNCHANGED <<ctlVars, ridx, rstart, rsleep, rwaitobj, rtl,
                   obsRunVars, obsCtlVars>>
    /\ UNCHANGED otherVars

\* lines 336-354: sa.play_buffer(...) from start_pos_ms; when it raises,
\* lines 460-463: finish_reason = "error", error_message = str(exc)
RunnerOpenAudio(t) ==
    /\ rpc[t] = "open"
    /\ \E ok \in BOOLEAN :
         IF ok
           THEN /\ play_obj' = t
                /\ audio_playing' = [audio_playing EXCEPT ![t] = TRUE]
                /\ audio_from' = [audio_from EXCEPT ![t] = rstart[t]]
                /\ rpc' = [rpc EXCEPT ![t] = "mark"]
                /\ UNCHANGED <<rreason, rerr>>
           ELSE /\ rreason' = [rreason EXCEPT ![t] = "error"]
                /\ rerr' = [rerr EXCEPT ![t] = "audio device error"]
                /\ rpc' = [rpc EXCEPT ![t] = "wait"]
                /\ UNCHANGED <<play_obj, audioVars>>
    /\ UNCHANGED <<elapsed, running, paused, stop_reason, resume_from_ms,
                   pause_pos_ms, session_dir, timeline, audio, thread>>
    /\ UNCHANGED <<ctlVars, ridx, rstart, rsleep, rwaitobj, rtl,
                   obsRunVars, obsCtlVars>>
    /\ UNCHANGED otherVars

\* lines 356-361: _start_time = now - start_pos_ms/1000; self._running.set()
RunnerMarkRunning(t) ==
    /\ rpc[t] = "mark"
    /\ elapsed' = rstart[t] \div TickMs
    /\ running' = TRUE
    /\ rpc' = [rpc EXCEPT ![t] = "unpause"]
    /\ UNCHANGED <<paused, stop_reason, resume_from_ms, pause_pos_ms,
                   session_dir, timeline, audio, thread, play_obj>>
    /\ UNCHANGED <<audioVars, ctlVars, ridx, rstart, rreason, rerr,
                   rsleep, rwaitobj, rtl, obsRunVars, obsCtlVars>>
    /\ UNCHANGED otherVars

\* line 366: where the for loop goes when it asks for frame number i
LoopTop(tl, i) == IF i <= Len(TimelineOf(tl)) THEN "check" ELSE "wait"

\* the index of the frame the loop over self.timeline starts with
FirstFrame(startPosMs) == 1

\* lines 362-366: self._paused.clear(); drop _resume_from_ms;
\* iter(self.timeline)
RunnerClearPaused(t) ==
    /\ rpc[t] = "unpause"
    /\ paused' = FALSE
    /\ resume_from_ms' = NoAttr
    /\ rtl' = [rtl EXCEPT ![t] = timeline]
    /\ ridx' = [ridx EXCEPT ![t] = FirstFrame(rstart[t])]
    /\ rpc' = [rpc EXCEPT ![t] = LoopTop(timeline, FirstFrame(rstart[t]))]
    /\ UNCHANGED <<elapsed, running, stop_reason, pause_pos_ms,
                   session_dir, timeline, audio, thread, play_obj>>
    /\ UNCHANGED <<audioVars, ctlVars, rstart, rreason, rerr, rsleep,
                   rwaitobj, obsRunVars, obsCtlVars>>
    /\ UNCHANGED otherVars

\* line 369: while self._paused.is_set() and self._running.is_set():
\* line 370:     time.sleep(0.01)
RunnerPauseCheck(t) ==
    /\ rpc[t] = "check"
    /\ IF paused /\ running
         THEN /\ rsleep' = [rsleep EXCEPT ![t] = 1]
              /\ rpc' = [rpc EXCEPT ![t] = "spin"]
         ELSE /\ UNCHANGED rsleep
              /\ rpc' = [rpc EXCEPT ![t] = "sched"]
    /\ UNCHANGED <<playerVars, audioVars, ctlVars, ridx, rstart,
                   rreason, rerr, rwaitobj, rtl, obsRunVars, obsCtlVars>>
    /\ UNCHANGED otherVars

\* line 371: self._start_time += 0.01   (after the sleep)
RunnerPauseShift(t) ==
    /\ rpc[t] = "spin"
    /\ rsleep[t] = 0
    /\ elapsed > -MaxTime
    /\ elapsed' = elapsed - 1
    /\ rpc' = [rpc EXCEPT ![t] = "check"]
    /\ UNCHANGED <<running, paused, stop_reason, resume_from_ms, pause_pos_ms,
                   session_dir, timeline, audio, thread, play_obj>>
    /\ UNCHANGED <<audioVars, ctlVars, ridx, rstart, rreason, rerr,
                   rsleep, rwaitobj, rtl, obsRunVars, obsCtlVars>>
    /\ UNCHANGED otherVars

\* line 376: target_time = self._start_time + frame["timestamp_ms"] / 1000.0
\* line 377: delay = target_time - time.time()
Delay(tl, i) == (TimelineOf(tl)[i] \div TickMs) - elapsed

\* lines 372-374: if not running: finish_reason = _stop_reason or "stopped"
\* lines 376-387: delay = target_time - now; sleep(delay) when delay > 0
RunnerSchedule(t) ==
    /\ rpc[t] = "sched"
    /\ IF ~running
         THEN /\ rreason' = [rreason EXCEPT ![t] =
                    IF stop_reason # None THEN stop_reason ELSE "stopped"]
              /\ rpc' = [rpc EXCEPT ![t] = "wait"]
              /\ UNCHANGED rsleep
         ELSE /\ LET delay == Delay(rtl[t], ridx[t])
                 IN  rsleep' = [rsleep EXCEPT ![t] =
                                 IF delay > 0 THEN delay ELSE 0]
              /\ rpc' = [rpc EXCEPT ![t] = "deliver"]
              /\ UNCHANGED rreason
    /\ UNCHANGED <<playerVars, audioVars, ctlVars, ridx, rstart, rerr,
                   rwaitobj, rtl, obsRunVars, obsCtlVars>>
    /\ UNCHANGED otherVars

\* lines 389-458: the motor commands of one frame, then the next frame
RunnerDeliver(t) ==
    /\ rpc[t] = "deliver"
    /\ rsleep[t] = 0
    /\ ridx' = [ridx EXCEPT ![t] = @ + 1]
    /\ rpc' = [rpc EXCEPT ![t] = LoopTop(rtl[t], ridx[t] + 1)]
    /\ runDelivered' = IF rcur[t] /\ ridx[t] > runDelivered
                         THEN ridx[t] ELSE runDelivered
    /\ UNCHANGED <<playerVars, audioVars, ctlVars, rstart, rreason, rerr,
                   rsleep, rwaitobj, rtl, rcur, cbThisRun, rneutral, endedBy,
                   obsCtlVars>>
    /\ UNCHANGED otherVars

\* line 466: if self._play_obj:
RunnerWaitAudio(t) ==
    /\ rpc[t] = "wait"
    /\ IF play_obj # 0
         THEN /\ rwaitobj' = [rwaitobj EXCEPT ![t] = play_obj]
              /\ rpc' = [rpc EXCEPT ![t] = "waiting"]
         ELSE /\ UNCHANGED rwaitobj
              /\ rpc' = [rpc EXCEPT ![t] = "clear"]
    /\ UNCHANGED <<playerVars, audioVars, ctlVars, ridx, rstart,
                   rreason, rerr, rsleep, rtl, obsRunVars, obsCtlVars>>
    /\ UNCHANGED otherVars

\* lines 467-468: self._play_obj.wait_done() returns
RunnerAudioDone(t) ==
    /\ rpc[t] = "waiting"
    /\ ~audio_playing[rwaitobj[t]]
    /\ rpc' = [rpc EXCEPT ![t] = "clear"]
    /\ UNCHANGED <<playerVars, audioVars, ctlVars, ridx, rstart,
                   rreason, rerr, rsleep, rwaitobj, rtl, obsRunVars,
                   obsCtlVars>>
    /\ UNCHANGED otherVars

\* line 472: self._running.clear()
RunnerClearRunning(t) ==
    /\ rpc[t] = "clear"
    /\ running' = FALSE
    /\ rpc' = [rpc EXCEPT ![t] = "fin"]
    /\ UNCHANGED <<elapsed, paused, stop_reason, resume_from_ms, pause_pos_ms,
                   session_dir, timeline, audio, thread, play_obj>>
    /\ UNCHANGED <<audioVars, ctlVars, ridx, rstart, rreason, rerr,
                   rsleep, rwaitobj, rtl, obsRunVars, obsCtlVars>>
    /\ UNCHANGED otherVars

\* lines 492-493: a "stopped" finish takes the reason stop() recorded
FinalReason(finish_reason, recorded) ==
    IF finish_reason = "stopped" /\ recorded # None THEN recorded
                                                    ELSE finish_reason

\* lines 484-506: hw.neutral(); under the lock read and reset _stop_reason;
\* callback(finish_reason, error_message, session_name)
RunnerFinish(t) ==
    /\ rpc[t] = "fin"
    /\ rneutral' = [rneutral EXCEPT ![t] = TRUE]
    /\ rreason' = [rreason EXCEPT ![t] = FinalReason(rreason[t], stop_reason)]
    /\ stop_reason' = None
    /\ cbThisRun' = IF rcur[t] THEN cbThisRun + 1 ELSE cbThisRun
    /\ UNCHANGED runDelivered
    /\ rpc' = [rpc EXCEPT ![t] = "end"]
    /\ UNCHANGED <<elapsed, running, paused, resume_from_ms, pause_pos_ms,
                   session_dir, timeline, audio, thread, play_obj>>
    /\ UNCHANGED <<audioVars, ctlVars, ridx, rstart, rerr, rsleep,
                   rwaitobj, rtl, rcur, endedBy, obsCtlVars>>
    /\ UNCHANGED otherVars

\* line 508: self._play_obj = None; the thread ends
RunnerEnd(t) ==
    /\ rpc[t] = "end"
    /\ play_obj' = 0
    /\ rpc' = [rpc EXCEPT ![t] = "done"]
    /\ rcur' = [rcur EXCEPT ![t] = FALSE]
    /\ FreshLocals(t)
    /\ UNCHANGED <<elapsed, running, paused, stop_reason, resume_from_ms,
                   pause_pos_ms, session_dir, timeline, audio, thread>>
    /\ UNCHANGED <<audioVars, ctlVars, cbThisRun, runDelivered, obsCtlVars>>
    /\ UNCHANGED otherVars

\* ------------------------------------------------------- environment
\* the audio device reaches the end of the buffer it is playing
AudioEnds(t) ==
    /\ audio_playing[t]
    /\ Awaited(t)
    /\ audio_playing' = [audio_playing EXCEPT ![t] = FALSE]
    /\ UNCHANGED <<playerVars, audio_from, ctlVars, runVars,
                   obsRunVars, obsCtlVars>>
    /\ UNCHANGED otherVars

\* time.time() advances by one tick
Tick ==
    /\ elapsed < MaxTime
    /\ elapsed' = elapsed + 1
    /\ rsleep' = [t \in Threads |-> IF rsleep[t] > 0 THEN rsleep[t] - 1 ELSE 0]
    /\ UNCHANGED <<running, paused, stop_reason, resume_from_ms, pause_pos_ms,
                   session_dir, timeline, audio, thread, play_obj>>
    /\ UNCHANGED <<audioVars, ctlVars, rpc, ridx, rstart, rreason, rerr,
                   rwaitobj, rtl, obsRunVars, obsCtlVars>>
    /\ UNCHANGED otherVars

\* ------------------------------------------------------- specification
Control ==
    \/ \E d \in Dirs, disk \in DiskStates : LoadCall(d, disk)
    \/ LoadTimeline \/ LoadAudio \/ LoadReturn
    \/ PlayCall \/ PlayStart
    \/ PauseCall \/ PauseCapture
    \/ ResumeCall \/ ResumeClear \/ ResumeJoin \/ ResumeStart
    \/ \E r \in StopReasons : StopCall(r)
    \/ StopSetReason \/ StopSignal \/ StopJoin \/ StopNeutral \/ StopReturn

Runner(t) ==
    \/ RunnerBegin(t) \/ RunnerOpenAudio(t) \/ RunnerMarkRunning(t)
    \/ RunnerClearPaused(t) \/ RunnerPauseCheck(t) \/ RunnerPauseShift(t)
    \/ RunnerSchedule(t) \/ RunnerDeliver(t)
    \/ RunnerWaitAudio(t) \/ RunnerAudioDone(t) \/ RunnerClearRunning(t)
    \/ RunnerFinish(t) \/ RunnerEnd(t)

Next ==
    \/ Control
    \/ \E t \in Threads : Runner(t)
    \/ \E t \in Threads : AudioEnds(t)
    \/ Tick

\* the objects after construction; the scheduler and the frame body do not
\* touch the loop engine, so one loop file is enough for them
\* no document has been given to Timeline.from_json yet
NoDoc == [shape |-> "none", entries |-> <<>>]
TimelineIdle ==
    /\ doc = NoDoc
    /\ tl_frames = <<>>
    /\ kf = <<>>
    /\ qt = 0
    /\ interp_ret = {}
    /\ tpc = "idle"

\* GazeReceiver.__init__ (lines 56-63), outside the Flask reloader parent
GazeIdle ==
    /\ stored = {}
    /\ clock = 0
    /\ got = {}
    /\ deferred = FALSE
    /\ gzpc = "idle"

\* Hardware.SPECS as declared (lines 91-96), tenths of a degree, before
\* any set_named_angle call
Servos == {"jaw", "eye_left", "eye_right", "neck_pan"}
HwIdle ==
    /\ pitch_offset = [s \in Servos |-> IF s = "eye_left" THEN -140 ELSE 0]
    /\ hw_name = "none"
    /\ hw_deg = 0
    /\ hw_d = {}
    /\ hw_us = {}
    /\ hw_logged = {}

\* the locals of _runner before its frame loop (lines 326-327)
PaceIdle ==
    /\ frame_count = 0
    /\ skipped_frames = 0
    /\ pace_log = <<>>
    /\ high_skip = FALSE
    /\ ppc = "frames"

\* no centring iteration is looked at
CentreIdle ==
    /\ yaw_in = [c \in GazeChannels |-> 0]
    /\ dt_in = 0
    /\ flags_in = [c \in GazeChannels |-> TRUE]
    /\ target_before = [c \in GazeChannels |-> InitialTarget[c]]
    /\ target_after = [c \in GazeChannels |-> InitialTarget[c]]
    /\ centre_motor = [c \in GazeChannels |-> {}]
    /\ cnpc = "idle"

\* bound on the GazeReceiver objects made in one process
MaxInstances == 3
Instances == 1..MaxInstances

\* an object that has not been constructed, or whose constructor raised
NoReceiver == [made |-> FALSE, deferred |-> FALSE, running |-> FALSE,
               sock |-> "none"]

\* no GazeReceiver has been constructed
RecvIdle ==
    /\ receivers = [i \in Instances |-> NoReceiver]
    /\ started_in_process = FALSE

\* the function-level components are not exercised
UnitIdle ==
    /\ TimelineIdle /\ GazeIdle /\ HwIdle /\ PaceIdle /\ RecvIdle
    /\ CentreIdle

Start == Init /\ FrameInit /\ LoopInitWith("short") /\ UnitIdle

Spec == Start /\ [][Next]_vars

\* ------------------------------------------------------------ properties
\* thread t issues the motor commands of one frame in this step
Delivers(t) == rpc[t] = "deliver" /\ rpc'[t] # "deliver"

\* the frame thread t is about to deliver
FrameTs(t) == TimelineOf(rtl[t])[ridx[t]]

\* C1: for every run started by play(), paused and resumed or not, the
\* completion callback is invoked at most once (cbThisRun counts the
\* callbacks made by the pump threads of the run play() started last).
CallbackOncePerRun == cbThisRun <= 1

\* C2: at every moment at most one pump thread is past the running check
\* of the frame loop and about to issue the motor commands of a frame.
OnePumpDelivers ==
    Cardinality({t \in Threads : rpc[t] = "deliver"}) <= 1

\* C3: a pump thread started by resume() at pause position p > 0 has its
\* audio restarted at p; every frame it delivers is at most LateToleranceMs
\* late on the elapsed time and was not delivered before in the same run
\* (runDelivered is the highest frame the run has delivered so far).
ResumeKeepsAlignment ==
    [][\A t \in Threads :
         (Delivers(t) /\ rcur[t] /\ rstart[t] > 0) =>
            /\ audio_from[t] = rstart[t]
            /\ elapsed * TickMs - FrameTs(t) <= LateToleranceMs
            /\ ridx[t] > runDelivered]_vars

\* C4: from the return of a pause() that found the player running until
\* the next resume(), play() or stop() call, no pump thread delivers a
\* frame.
NoFrameWhilePaused ==
    [][(quiet = "paused" /\ quiet' = "paused") =>
          \A t \in Threads : ~Delivers(t)]_vars

\* C5: when stop() has returned, and until the next play() or resume(),
\* the running and paused flags are clear and no pump thread delivers a
\* frame.
StoppedStaysIdle ==
    [][(quiet' = "stopped") =>
          /\ ~running'
          /\ ~paused'
          /\ (quiet = "stopped" => \A t \in Threads : ~Delivers(t))]_vars

\* C6: whenever stop() is about to return it has called hw.neutral() and
\* nothing has been raised, the join having timed out or not.
StopAlwaysNeutral == cpc = "stop_ret" => (stopNeutral /\ ~stopRaised)

\* stop() is about to return after a join that timed out on a live thread
StopReturnsAfterTimeout ==
    cpc = "stop_ret" /\ stopTimedOut /\ IsAlive(thread) /\ stopNeutral

\* C7: a run that stop(reason) found running or paused, and that did not
\* fail, hands exactly that reason to the callback; only a run that failed
\* hands over "error".
CallbackGetsStopReason ==
    \A t \in Threads :
       rpc[t] = "end" =>
          /\ (endedBy[t] # None /\ rerr[t] = None => rreason[t] = endedBy[t])
          /\ (rreason[t] = "error" => rerr[t] # None)

\* C8: when load() raises, session_dir, timeline and audio are what they
\* were when it was called.
FailedLoadKeepsState ==
    (cpc = "load_ret" /\ loadRaised) =>
        <<session_dir, timeline, audio>> = preLoad

\* C9: a load() called while the player is running or paused is rejected
\* and leaves session_dir, timeline and audio as they were.
LoadOnlyFromIdle ==
    (cpc = "load_ret" /\ loadActive) =>
        (loadRaised /\ <<session_dir, timeline, audio>> = preLoad)

\* C10: a pump thread whose audio output failed to open has, when it has
\* made its callback, delivered no frame, called hw.neutral() and handed
\* over "error" with a non-empty message; and unless another run has been
\* started since, the running flag is clear.
AudioOpenFailureAborts ==
    \A t \in Threads :
       (rpc[t] = "end" /\ rerr[t] # None) =>
          /\ ridx[t] = 1
          /\ rneutral[t]
          /\ rreason[t] = "error"
          /\ rerr[t] # ""
          /\ ((cpc = "idle" /\ \A u \in Threads \ {t} : ~IsAlive(u))
                 => ~running)

\* a run restarted by resume() at a position p > 0 failed to open its audio
\* output and has made its callback
ResumedRunFailedToOpen ==
    \E t \in Threads :
       /\ rpc[t] = "end"
       /\ rerr[t] # None
       /\ rstart[t] > 0
       /\ thread = t
       /\ ~running

\* play() starts its runner thread in this step (lines 517-518)
PlayStarts == cpc = "play2" /\ cpc' = "idle"

\* C31: whenever play() starts its runner thread, every earlier pump
\* thread has exited, and the pause position an earlier pause() or resume()
\* left is gone, so the new run opens its audio at offset 0.
PlayEndsPriorRun ==
    [][PlayStarts =>
          /\ \A t \in Threads : rpc[t] = "done"
          /\ resume_from_ms' = NoAttr]_vars

\* a control call begins in this step and it is a pause() or a resume()
PauseOrResumeBegins ==
    /\ cpc = "idle"
    /\ ncalls' = ncalls + 1
    /\ cpc' \in {"idle", "pause2", "resume2"}

\* C32: a pause() goes on only when the player is running and not paused,
\* a resume() only when it is paused; any other pause() or resume() returns
\* at once and leaves the running and paused flags, the captured pause
\* position, the resume position, the audio objects and the pump threads as
\* they were.
PauseResumeGuarded ==
    [][PauseOrResumeBegins =>
          /\ cpc' = "pause2" => (running /\ ~paused)
          /\ cpc' = "resume2" => paused
          /\ ignored' = (cpc' = "idle")
          /\ cpc' = "idle" =>
                UNCHANGED <<running, paused, pause_pos_ms, resume_from_ms,
                            play_obj, audioVars, thread, runVars>>]_vars

\* a pause() on a player that was already paused has returned at once
PauseIgnoredWhilePaused ==
    /\ cpc = "idle"
    /\ ignored
    /\ paused
    /\ running

\* C35: whenever no control call is in progress, the paused flag is set
\* only if the running flag is set (what status() reports, lines 575-577).
PausedOnlyWhileRunning == cpc = "idle" => (paused => running)

\* ======================================================================
\* The frame body of the pump thread and the gaze follower
\* (src/sync_player.py lines 136-147, 155-310, 389-458; src/gaze_receiver.py)
\*
\* One run at a time is followed frame by frame, uninterrupted by pause or
\* stop; the environment changes the channel flags, the tracking switch
\* and the latest gaze datagram between any two steps.
\* ======================================================================

\* everything the frame body and the follower leave alone, but the
\* running flag
restVars == <<paused, stop_reason, resume_from_ms, pause_pos_ms, session_dir,
              timeline, audio, thread, play_obj, elapsed, audioVars, ctlVars,
              runVars, obsRunVars, obsCtlVars, loopVars, unitVars>>

pumpVars == <<fpc, fidx, freason>>
followerVars == <<gpc, gcmd, gch>>
frameObsVars == <<motor, frozen_log>>

\* number of frames of the loaded Timeline
FrameCount == Len(TimelineOf("a"))

\* GazeReceiver.get_command(): "raise" when the stored value makes it raise
\* (cmd.get on a non-object, float() of a non-numeric ts), None when nothing
\* is stored or the command is older than its ttl_ms, else the command
GetCommand(l) ==
    CASE l \in {"notobject", "badts"} -> "raise"
      [] l \in {"none", "stale"}      -> None
      [] OTHER                        -> l

\* float(gaze_cmd[key]["yaw_deg"]) succeeds
YawReadable(cmd) == cmd = "track"

\* ---- environment
\* SyncPlayer.set_channels(flags)
SetChannels(flags) ==
    /\ ninputs < MaxInputs
    /\ flags # channels
    /\ channels' = flags
    /\ ninputs' = ninputs + 1
    /\ UNCHANGED <<track_enable, last_target, latest, pumpVars, followerVars,
                   frameObsVars, gmotor, committed, nticks>>
    /\ UNCHANGED <<running, restVars>>

\* the application switches tracking on or off (public attribute, line 75)
SetTrackEnable(b) ==
    /\ ninputs < MaxInputs
    /\ b # track_enable
    /\ track_enable' = b
    /\ ninputs' = ninputs + 1
    /\ UNCHANGED <<channels, last_target, latest, pumpVars, followerVars,
                   frameObsVars, gmotor, committed, nticks>>
    /\ UNCHANGED <<running, restVars>>

\* GazeReceiver._loop stores a received datagram, or a stored command ages
GazeDatagram(shape) ==
    /\ ninputs < MaxInputs
    /\ shape # latest
    /\ shape # "none"
    /\ latest' = shape
    /\ ninputs' = ninputs + 1
    /\ UNCHANGED <<track_enable, channels, last_target, pumpVars,
                   followerVars, frameObsVars, gmotor, committed, nticks>>
    /\ UNCHANGED <<running, restVars>>

\* ---- the pump thread
\* play() with no live pump thread: the thread is created and started
FramePlay ==
    /\ fpc \in {"idle", "ended"}
    /\ fpc' = "starting"
    /\ fidx' = 1
    /\ freason' = None
    /\ UNCHANGED <<track_enable, channels, last_target, latest, followerVars,
                   frameObsVars, gmotor, committed, ninputs, nticks>>
    /\ UNCHANGED <<running, restVars>>

\* _runner up to the frame loop: self._running.set() (line 361)
FrameMarkRunning ==
    /\ fpc = "starting"
    /\ running' = TRUE
    /\ fpc' = "frame"
    /\ UNCHANGED <<track_enable, channels, last_target, latest, fidx, freason,
                   followerVars, frameObsVars, gmotor, committed, ninputs,
                   nticks>>
    /\ UNCHANGED restVars

\* the frame's gaze command, read when tracking is enabled (lines 400-402)
FrameGaze == IF track_enable THEN GetCommand(latest) ELSE None

\* the channel follows the gaze command on this frame (lines 410, 427, 444)
UsesGaze(c, gaze_cmd, ch) ==
    /\ c \in GazeChannels
    /\ gaze_cmd \notin {None, "other"}
    /\ ch[c]

\* the angle handed to hw.set_named_angle for channel c, {} when none is
FrameCommand(c, i, gaze_cmd, ch) ==
    IF UsesGaze(c, gaze_cmd, ch)
    THEN IF YawReadable(gaze_cmd) THEN {GazeYaw(c)} ELSE {FrameAngle(c, i)}
    ELSE IF ch[c] THEN {FrameAngle(c, i)} ELSE {}

\* the angle written to the servo log with enabled=False, {} when none is:
\* self._last_target[c], which line 395 has set to the frame's value
FrameFrozenLog(c, i, ch) ==
    IF ch[c] THEN {} ELSE {FrameAngle(c, i)}

\* self._last_target after the frame: the Timeline values (line 395), and
\* the gaze angle where one was commanded (lines 415, 432, 449)
FrameLastTarget(c, i, gaze_cmd, ch) ==
    IF UsesGaze(c, gaze_cmd, ch) /\ YawReadable(gaze_cmd)
    THEN GazeYaw(c) ELSE FrameAngle(c, i)

\* one frame of the loop, lines 389-458; an exception of get_command()
\* leaves the loop through "except Exception" (line 460)
FrameBody ==
    /\ fpc = "frame"
    /\ LET g == FrameGaze
           ch == channels
       IN  IF g = "raise"
           THEN /\ last_target' = [c \in Channels |-> FrameAngle(c, fidx)]
                /\ motor' = [c \in Channels |-> {}]
                /\ frozen_log' = [c \in Channels |-> {}]
                /\ committed' = committed
                /\ freason' = "error"
                /\ fpc' = "finish"
                /\ fidx' = fidx
           ELSE /\ last_target' =
                      [c \in Channels |-> FrameLastTarget(c, fidx, g, ch)]
                /\ motor' = [c \in Channels |-> FrameCommand(c, fidx, g, ch)]
                /\ frozen_log' =
                      [c \in Channels |-> FrameFrozenLog(c, fidx, ch)]
                /\ committed' =
                      [c \in Channels |->
                          IF FrameCommand(c, fidx, g, ch) = {}
                          THEN committed[c]
                          ELSE FrameCommand(c, fidx, g, ch)]
                /\ IF fidx < FrameCount
                   THEN /\ fidx' = fidx + 1
                        /\ fpc' = "frame"
                        /\ freason' = freason
                   ELSE /\ fidx' = fidx
                        /\ fpc' = "finish"
                        /\ freason' = "completed"
    /\ UNCHANGED <<track_enable, channels, latest, followerVars, gmotor,
                   ninputs, nticks>>
    /\ UNCHANGED <<running, restVars>>

\* Hardware.neutral() (rpi_hardware.py lines 126-132): jaw 180, others 90
Neutral(c) == IF c = "jaw" THEN 18000 ELSE 9000

\* the finally block: self._running.clear() (line 472), hw.neutral()
\* (line 484), which commands every motor, then the callback
FrameFinish ==
    /\ fpc = "finish"
    /\ running' = FALSE
    /\ committed' = [c \in Channels |-> {Neutral(c)}]
    /\ fpc' = "ended"
    /\ UNCHANGED <<track_enable, channels, last_target, latest, fidx, freason,
                   followerVars, frameObsVars, gmotor, ninputs, nticks>>
    /\ UNCHANGED restVars

\* ---- the gaze follower thread
\* follower constants, in hundredths of a degree (lines 161-176)
KpNum(c) == IF c = "neck" THEN 3 ELSE 4
Deadzone(c) == IF c = "neck" THEN 300 ELSE 200
MaxSpeed(c) == IF c = "neck" THEN 1500 ELSE 6000
LowLimit(c) == IF c = "neck" THEN 0 ELSE 6000
HighLimit(c) == IF c = "neck" THEN 18000 ELSE 12000

\* dt of one nominal iteration: SLEEP = 0.02 s
FollowerDtMs == 20

Abs(x) == IF x < 0 THEN -x ELSE x
Clamp(lo, hi, x) == IF x < lo THEN lo ELSE IF x > hi THEN hi ELSE x

\* max_correction = MAX_SPEED * dt, dt in milliseconds
MaxCorrectionFor(c, dt_ms) == (MaxSpeed(c) * dt_ms) \div 1000
MaxCorrection(c) == MaxCorrectionFor(c, FollowerDtMs)

\* "abs(error_deg) > DEADZONE" (lines 206, 243, 277)
OutsideDeadzone(c, err) == Abs(err) > Deadzone(c)

\* a correction that is not limited in speed
CorrectionUnlimited(c, err, dt_ms) == -((err * KpNum(c)) \div 10)

\* correction_deg = max(-max_correction, min(max_correction,
\* -error_deg * KP)) (lines 208-215)
Correction(c, err, dt_ms) ==
    Clamp(-MaxCorrectionFor(c, dt_ms), MaxCorrectionFor(c, dt_ms),
          -((err * KpNum(c)) \div 10))

\* target = clamp(current + correction) (lines 218-222)
CenterTarget(c, err, dt_ms, current) ==
    Clamp(LowLimit(c), HighLimit(c), current + Correction(c, err, dt_ms))

\* the target of one nominal iteration on the yaw of the stored command
FollowerTarget(c, current) ==
    CenterTarget(c, GazeYaw(c), FollowerDtMs, current)

\* "if self._running.is_set(): sleep; continue" (lines 181-183): the
\* follower goes on only when the flag is clear
FollowerCheck ==
    /\ gpc = "check"
    /\ ~running
    /\ gpc' = "read"
    /\ UNCHANGED <<track_enable, channels, last_target, latest, pumpVars,
                   gcmd, gch, frameObsVars, gmotor, committed, ninputs,
                   nticks>>
    /\ UNCHANGED <<running, restVars>>

\* lines 185-192: read the command, test it, copy the channel flags; an
\* exception of get_command() is logged by the outer handler (line 306)
FollowerRead ==
    /\ gpc = "read"
    /\ LET cmd == GetCommand(latest)
       IN  IF cmd \notin {"raise", None, "other"} /\ track_enable
           THEN /\ gpc' = "act"
                /\ gcmd' = cmd
                /\ gch' = channels
           ELSE /\ gpc' = "check"
                /\ UNCHANGED <<gcmd, gch>>
    /\ UNCHANGED <<track_enable, channels, last_target, latest, pumpVars,
                   frameObsVars, gmotor, committed, ninputs, nticks>>
    /\ UNCHANGED <<running, restVars>>

\* the follower moves channel c on this iteration (lines 195-203)
FollowerMoves(c) ==
    /\ c \in GazeChannels
    /\ gch[c]
    /\ YawReadable(gcmd)
    /\ OutsideDeadzone(c, GazeYaw(c))

\* lines 194-299: the centring step of every gaze channel
FollowerAct ==
    /\ gpc = "act"
    /\ nticks < MaxTicks
    /\ gmotor' = [c \in Channels |->
                     IF FollowerMoves(c)
                     THEN {FollowerTarget(c, last_target[c])} ELSE {}]
    /\ last_target' = [c \in Channels |->
                          IF FollowerMoves(c)
                          THEN FollowerTarget(c, last_target[c])
                          ELSE last_target[c]]
    /\ committed' = [c \in Channels |->
                        IF FollowerMoves(c)
                        THEN {FollowerTarget(c, last_target[c])}
                        ELSE committed[c]]
    /\ gpc' = "check"
    /\ nticks' = nticks + 1
    /\ UNCHANGED <<track_enable, channels, latest, pumpVars, gcmd, gch,
                   frameObsVars, ninputs>>
    /\ UNCHANGED <<running, restVars>>

FrameNext ==
    \/ \E flags \in [Channels -> BOOLEAN] : SetChannels(flags)
    \/ \E b \in BOOLEAN : SetTrackEnable(b)
    \/ \E shape \in GazeShapes : GazeDatagram(shape)
    \/ FramePlay
    \/ FrameMarkRunning
    \/ FrameBody
    \/ FrameFinish
    \/ FollowerCheck
    \/ FollowerRead
    \/ FollowerAct

SpecFrame == Start /\ [][FrameNext]_vars

\* ---------------------------------------------- properties of the frames
\* the pump thread runs the body of one frame in this step
FrameStep == fpc = "frame" /\ (fpc' # "frame" \/ fidx' # fidx)

\* the follower thread finishes one centring step in this step
FollowerStep == gpc = "act" /\ gpc' # "act"

\* stored values that are not a well-formed command
Malformed == {"notobject", "badts", "nofields", "badyaw"}

\* stored values that are recent objects with mode "track"
FreshTrack == {"track", "nofields", "badyaw"}

\* C11: whatever the gaze receiver last stored, a frame does not end the
\* run with reason "error" and goes on to the next frame (or completes the
\* run after the last one); with a malformed value stored, every neck/eye
\* channel whose flag is true is commanded the frame's Timeline angle.
GazeNeverEndsRun ==
    [][FrameStep =>
          /\ freason' # "error"
          /\ (IF fidx < FrameCount
              THEN fpc' = "frame" /\ fidx' = fidx + 1
              ELSE freason' = "completed")
          /\ (latest \in Malformed =>
                \A c \in GazeChannels :
                   channels[c] => motor'[c] = {FrameAngle(c, fidx)})]_vars

\* C12: on every frame that is pumped, a channel whose flag is false gets no
\* motor command, and once the channel has been commanded its frozen log
\* entry reports the angle last commanded on it (committed), not the
\* frame's Timeline angle.
FrozenChannelKeepsAngle ==
    [][(FrameStep /\ freason' # "error") =>
          \A c \in Channels :
             ~channels[c] =>
                /\ motor'[c] = {}
                /\ (committed[c] # {} => frozen_log'[c] = committed[c])]_vars

\* C13: on every frame, jaw is commanded from the Timeline only; neck and
\* each eye are commanded the gaze yaw exactly when tracking is enabled, a
\* fresh "track" command is stored and the flag is true, else the Timeline
\* angle when the flag is true, and nothing when the flag is false.
GazeBlending ==
    [][FrameStep =>
          /\ motor'["jaw"] \subseteq {FrameAngle("jaw", fidx)}
          /\ \A c \in GazeChannels :
                motor'[c] =
                   IF track_enable /\ latest \in FreshTrack /\ channels[c]
                   THEN {GazeYaw(c)}
                   ELSE IF channels[c] THEN {FrameAngle(c, fidx)}
                   ELSE {}]_vars

\* C14: the follower thread sends no motor command and does not write
\* _last_target while the running flag is set.
FollowerIdleOnly ==
    [][(FollowerStep /\ running) =>
          /\ \A c \in Channels : gmotor'[c] = {}
          /\ last_target' = last_target]_vars

\* ServoSpec.clamp of the facade for channel c (rpi_hardware.py lines
\* 46-47 and 92-95), in hundredths of a degree
FacadeClamp(c, deg) ==
    CASE c = "jaw"  -> Clamp(11000, 18500, deg)
      [] c = "neck" -> Clamp(0, 18000, deg)
      [] OTHER      -> Clamp(6000, 12000, deg)

\* C38: once a motor has been commanded, _last_target of its channel is
\* the angle most recently commanded to it, as the facade clamped it.
LastTargetIsCommanded ==
    \A c \in Channels :
       \A deg \in committed[c] : last_target[c] = FacadeClamp(c, deg)

\* ======================================================================
\* The background loop engine (src/loop_player.py)
\*
\* Control calls hold the RLock from their first to their last statement and
\* are one step each; the render callback runs on PortAudio's thread in
\* three steps (the unlocked reads of lines 328-331, the locked snapshot of
\* lines 333-342, the rendering and the locked commit of lines 344-391);
\* every resume timer runs on a thread of its own.
\* ======================================================================

\* fade_ms arguments: None (the engine's default) or 0; delay arguments
FadeMs == {"default", "zero"}
Delays == {"zero", "positive"}

Min(a, b) == IF a < b THEN a ELSE b

\* _set_fade programs a ramp (lines 236-243) rather than setting the volume
Ramps(fade_ms) == sr /\ fade_ms # "zero"

\* a target taken as it is given
RawTarget(target) == target

\* "target = float(np.clip(target, 0.0, 1.0))" (line 218)
ClipTarget(target) ==
    IF target < 0 THEN 0 ELSE IF target > VolUnit THEN VolUnit ELSE target

\* _set_fade(target, fade_ms), lines 217-243: the volume fields afterwards
SetFade(target, fade_ms) ==
    IF Ramps(fade_ms)
    THEN [vol |-> vol, vol_target |-> ClipTarget(target),
          fade_samples_left |-> FadeLen,
          fade_step |-> (ClipTarget(target) - vol) \div FadeLen]
    ELSE [vol |-> ClipTarget(target), vol_target |-> ClipTarget(target),
          fade_samples_left |-> 0, fade_step |-> 0]

\* the number of ramps programmed stays within MaxFades
RampAllowed(fade_ms) == Ramps(fade_ms) => nfades < MaxFades
RampCount(fade_ms) == IF Ramps(fade_ms) THEN nfades + 1 ELSE nfades

\* timer.cancel() of _cancel_resume_timer_locked (lines 210-215): a timer
\* still sleeping never runs; one whose function has started is unaffected
CancelledTimers ==
    [i \in TimerIds |->
        IF i = resume_timer /\ timers[i] = "sleeping" THEN "unused"
        ELSE timers[i]]

LiveTimers(tm) == {i \in TimerIds : tm[i] # "unused"}

\* sessions counts the suppress_for_session() calls not yet followed by a
\* release_suppression() call; paired says that every release so far
\* followed a suppress of its own and that cancel_all_suppression() was
\* not used.

\* ---- control calls
\* reload_loop() (lines 92-99) with _load_fixed_loop (lines 258-278)
ReloadLoop(f) ==
    /\ nlcalls < MaxLoopCalls
    /\ nlcalls' = nlcalls + 1
    /\ enabled_ret' = {}
    /\ cbclean' = FALSE
    /\ IF LoopLength(f) = 0
       THEN UNCHANGED <<loop, sr, n, pos, vol, vol_target, fade_samples_left,
                        fade_step, loadgen, rendered>>
       ELSE /\ loop' = [gen |-> loadgen + 1, len |-> LoopLength(f)]
            /\ sr' = TRUE
            /\ n' = LoopLength(f)
            /\ pos' = 0
            /\ vol' = 0
            /\ vol_target' = 0
            /\ fade_samples_left' = 0
            /\ fade_step' = 0
            /\ loadgen' = loadgen + 1
            /\ rendered' = 0
    /\ UNCHANGED <<user_enabled, suppression_count, resume_timer, stream,
                   timers, cbpc, cb, out, owed, stale, nblocks, nfades>>
    /\ UNCHANGED <<schedVars, frameVars, unitVars>>
    /\ UNCHANGED pairVars

\* A faulty set_enabled: enabling the loop rewinds it to its first sample.
SetEnabledRewinds(enabled, fade_ms) ==
    /\ nlcalls < MaxLoopCalls
    /\ nlcalls' = nlcalls + 1
    /\ cbclean' = FALSE
    /\ enabled_ret' = {user_enabled # enabled}
    /\ user_enabled' = enabled
    /\ pos' = IF enabled /\ ~user_enabled THEN 0 ELSE pos
    /\ IF user_enabled = enabled \/ enabled
       THEN UNCHANGED <<vol, vol_target, fade_samples_left, fade_step, nfades>>
       ELSE /\ RampAllowed(fade_ms)
            /\ LET f == SetFade(0, fade_ms)
               IN  /\ vol' = f.vol
                   /\ vol_target' = f.vol_target
                   /\ fade_samples_left' = f.fade_samples_left
                   /\ fade_step' = f.fade_step
            /\ nfades' = RampCount(fade_ms)
    /\ UNCHANGED <<loop, sr, n, suppression_count, resume_timer, stream,
                   timers, cbpc, cb, out, rendered, loadgen, owed, stale,
                   nblocks>>
    /\ UNCHANGED <<schedVars, frameVars, unitVars>>
    /\ UNCHANGED pairVars

\* set_enabled(enabled, fade_ms) (lines 112-121)
SetEnabled(enabled, fade_ms) ==
    /\ nlcalls < MaxLoopCalls
    /\ nlcalls' = nlcalls + 1
    /\ cbclean' = FALSE
    /\ enabled_ret' = {user_enabled # enabled}
    /\ IF user_enabled = enabled
       THEN UNCHANGED <<user_enabled, vol, vol_target, fade_samples_left,
                        fade_step, nfades>>
       ELSE /\ user_enabled' = enabled
            /\ IF enabled
               THEN UNCHANGED <<vol, vol_target, fade_samples_left,
                                fade_step, nfades>>
               ELSE /\ RampAllowed(fade_ms)
                    /\ LET f == SetFade(0, fade_ms)
                       IN  /\ vol' = f.vol
                           /\ vol_target' = f.vol_target
                           /\ fade_samples_left' = f.fade_samples_left
                           /\ fade_step' = f.fade_step
                    /\ nfades' = RampCount(fade_ms)
    /\ UNCHANGED <<loop, sr, n, pos, suppression_count, resume_timer, stream,
                   timers, cbpc, cb, out, rendered, loadgen, owed, stale,
                   nblocks>>
    /\ UNCHANGED <<schedVars, frameVars, unitVars>>
    /\ UNCHANGED pairVars

\* suppress_for_session(fade_ms) (lines 123-129)
SuppressForSession(fade_ms) ==
    /\ nlcalls < MaxLoopCalls
    /\ RampAllowed(fade_ms)
    /\ nlcalls' = nlcalls + 1
    /\ enabled_ret' = {}
    /\ cbclean' = FALSE
    /\ timers' = CancelledTimers
    /\ resume_timer' = 0
    /\ suppression_count' = suppression_count + 1
    /\ LET f == SetFade(0, fade_ms)
       IN  /\ vol' = f.vol
           /\ vol_target' = f.vol_target
           /\ fade_samples_left' = f.fade_samples_left
           /\ fade_step' = f.fade_step
    /\ nfades' = RampCount(fade_ms)
    /\ owed' = 0
    /\ stale' = LiveTimers(CancelledTimers)
    /\ UNCHANGED <<loop, sr, n, pos, user_enabled, stream, cbpc, cb, out,
                   rendered, loadgen, nblocks>>
    /\ UNCHANGED <<schedVars, frameVars, unitVars>>
    /\ sessions' = sessions + 1
    /\ paired' = paired

\* release_suppression(delay) (lines 131-161)
ReleaseSuppression(delay) ==
    /\ nlcalls < MaxLoopCalls
    /\ nlcalls' = nlcalls + 1
    /\ enabled_ret' = {}
    /\ cbclean' = FALSE
    /\ IF suppression_count = 0
       THEN UNCHANGED <<suppression_count, resume_timer, timers, owed, stale>>
       ELSE IF delay = "zero"
       THEN /\ timers' = CancelledTimers
            /\ resume_timer' = 0
            /\ suppression_count' = suppression_count - 1
            /\ stale' = {}
            /\ owed' = Min(owed, suppression_count - 1)
       ELSE /\ \E i \in TimerIds :
                 /\ CancelledTimers[i] = "unused"
                 /\ \A j \in TimerIds : j < i => CancelledTimers[j] # "unused"
                 /\ timers' = [CancelledTimers EXCEPT ![i] = "sleeping"]
                 /\ resume_timer' = i
            /\ suppression_count' = suppression_count
            /\ stale' = {}
            /\ owed' = Min(owed + 1, suppression_count)
    /\ UNCHANGED <<loop, sr, n, pos, user_enabled, vol, vol_target,
                   fade_samples_left, fade_step, stream, cbpc, cb, out,
                   rendered, loadgen, nblocks, nfades>>
    /\ UNCHANGED <<schedVars, frameVars, unitVars>>
    /\ sessions' = IF sessions > 0 THEN sessions - 1 ELSE sessions
    /\ paired' = (paired /\ sessions > 0)

\* cancel_all_suppression() (lines 163-167)
CancelAllSuppression ==
    /\ nlcalls < MaxLoopCalls
    /\ nlcalls' = nlcalls + 1
    /\ enabled_ret' = {}
    /\ cbclean' = FALSE
    /\ timers' = CancelledTimers
    /\ resume_timer' = 0
    /\ suppression_count' = 0
    /\ owed' = 0
    /\ stale' = {}
    /\ UNCHANGED <<loop, sr, n, pos, user_enabled, vol, vol_target,
                   fade_samples_left, fade_step, stream, cbpc, cb, out,
                   rendered, loadgen, nblocks, nfades>>
    /\ UNCHANGED <<schedVars, frameVars, unitVars>>
    /\ sessions' = sessions
    /\ paired' = FALSE

\* ---- resume timers
\* the delay of timer i elapses: threading.Timer finds itself not cancelled
\* and calls _release, which waits for the lock
TimerExpires(i) ==
    /\ timers[i] = "sleeping"
    /\ timers' = [timers EXCEPT ![i] = "fired"]
    /\ UNCHANGED <<loop, sr, n, pos, user_enabled, suppression_count, vol,
                   vol_target, fade_samples_left, fade_step, resume_timer,
                   stream, cbpc, cb, out, rendered, loadgen, cbclean, owed,
                   stale, nlcalls, enabled_ret, nblocks, nfades>>
    /\ UNCHANGED <<schedVars, frameVars, unitVars>>
    /\ UNCHANGED pairVars

\* _release() run by timer i (lines 134-139)
TimerRelease(i) ==
    /\ timers[i] = "fired"
    /\ timers' = [timers EXCEPT ![i] = "unused"]
    /\ resume_timer' = 0
    /\ suppression_count' =
          IF suppression_count > 0 THEN suppression_count - 1
          ELSE suppression_count
    /\ owed' = IF suppression_count > 0 /\ owed > 0 THEN owed - 1 ELSE owed
    /\ stale' = stale \ {i}
    /\ cbclean' = FALSE
    /\ UNCHANGED <<loop, sr, n, pos, user_enabled, vol, vol_target,
                   fade_samples_left, fade_step, stream, cbpc, cb, out,
                   rendered, loadgen, nlcalls, enabled_ret, nblocks, nfades>>
    /\ UNCHANGED <<schedVars, frameVars, unitVars>>
    /\ UNCHANGED pairVars

\* ---- the render callback
\* _should_play_locked (lines 245-250)
ShouldPlayIgnoringSuppression == loop # NoLoop /\ user_enabled

ShouldPlayLocked ==
    loop # NoLoop /\ user_enabled /\ suppression_count = 0

\* lines 328-331: the buffer is read without the lock
CbBegin(frames) ==
    /\ cbpc = "idle"
    /\ stream
    /\ nblocks < MaxBlocks
    /\ nblocks' = nblocks + 1
    /\ IF loop = NoLoop \/ n = 0
       THEN UNCHANGED <<cbpc, cb, cbclean>>
       ELSE /\ cbpc' = "lock"
            /\ cb' = [NoLocals EXCEPT !.loop = loop, !.frames = frames]
            /\ cbclean' = TRUE
    /\ UNCHANGED <<loop, sr, n, pos, user_enabled, suppression_count, vol,
                   vol_target, fade_samples_left, fade_step, resume_timer,
                   stream, timers, out, rendered, loadgen, owed, stale,
                   nlcalls, enabled_ret, nfades>>
    /\ UNCHANGED <<schedVars, frameVars, unitVars>>
    /\ UNCHANGED pairVars

\* lines 333-342: _update_fade_target_if_needed_locked, then the snapshot
CbLock ==
    /\ cbpc = "lock"
    /\ LET target == IF ShouldPlayLocked THEN VolUnit ELSE 0
           f == IF vol_target # target THEN SetFade(target, "default")
                ELSE [vol |-> vol, vol_target |-> vol_target,
                      fade_samples_left |-> fade_samples_left,
                      fade_step |-> fade_step]
       IN  /\ vol_target # target => RampAllowed("default")
           /\ nfades' = IF vol_target # target THEN RampCount("default")
                        ELSE nfades
           /\ vol' = f.vol
           /\ vol_target' = f.vol_target
           /\ fade_samples_left' = f.fade_samples_left
           /\ fade_step' = f.fade_step
           /\ cb' = [cb EXCEPT !.n = n, !.pos = pos, !.vol = f.vol,
                               !.vol_target = f.vol_target,
                               !.fade_left = f.fade_samples_left,
                               !.fade_step = f.fade_step,
                               !.gen = loop.gen]
    /\ cbpc' = "render"
    /\ UNCHANGED <<loop, sr, n, pos, user_enabled, suppression_count,
                   resume_timer, stream, timers, out, rendered, loadgen,
                   cbclean, owed, stale, nlcalls, enabled_ret, nblocks>>
    /\ UNCHANGED <<schedVars, frameVars, unitVars>>
    /\ UNCHANGED pairVars

\* "take = to_end if to_end < frames_remaining else frames_remaining"
SegmentTakeNoWrap(to_end, frames_remaining) == frames_remaining

SegmentTake(to_end, frames_remaining) ==
    IF to_end < frames_remaining THEN to_end ELSE frames_remaining

\* loop[pos : pos + take]: the indexes of the slice, cut at the buffer's end
Slice(buflen, from, to) ==
    [k \in 1..(Min(buflen, to) - Min(buflen, from)) |-> from + k - 1]

\* numpy's assignment of src to m rows: equal lengths, or one row repeated
Fits(src, m) == Len(src) = m \/ Len(src) = 1
Spread(src, m) == [k \in 1..m |-> IF Len(src) = m THEN src[k] ELSE src[1]]

\* the while loop of lines 349-383 on the callback's locals: the rendered
\* frames as <<index in the buffer, gain>>, the locals afterwards, and
\* whether numpy raised
RECURSIVE Render(_, _, _, _, _, _, _, _)
Render(buflen, ln, lpos, lvol, ltarget, fade_left, lstep, frames_remaining) ==
    IF frames_remaining <= 0
    THEN [ok |-> TRUE, pos |-> lpos, vol |-> lvol, fade_left |-> fade_left,
          out |-> <<>>]
    ELSE
    LET take == SegmentTake(ln - lpos, frames_remaining)
        seg == Slice(buflen, lpos, lpos + take)
        steps == Min(take, fade_left)
        ramp == [k \in 1..steps |->
                    Clamp(0, VolUnit, lvol + lstep * (k - 1))]
        head == SubSeq(seg, 1, Min(steps, Len(seg)))
        tail == SubSeq(seg, steps + 1, Len(seg))
        fading == fade_left > 0
        okHere == IF fading
                  THEN /\ steps > 0
                       /\ Fits(head, steps)
                       /\ (take > steps => Fits(tail, take - steps))
                  ELSE take = 0 \/ Fits(seg, take)
        outHere ==
            IF fading
            THEN [k \in 1..steps |-> <<Spread(head, steps)[k], ramp[k]>>]
                 \o [k \in 1..(take - steps) |->
                        <<Spread(tail, take - steps)[k], ltarget>>]
            ELSE [k \in 1..take |-> <<Spread(seg, take)[k], lvol>>]
        vol1 == IF ~fading THEN lvol
                ELSE IF take > steps THEN ltarget ELSE ramp[steps]
        left1 == IF ~fading THEN fade_left
                 ELSE IF take > steps THEN 0 ELSE fade_left - steps
    IN  IF ~okHere
        THEN [ok |-> FALSE, pos |-> lpos, vol |-> lvol,
              fade_left |-> fade_left, out |-> <<>>]
        ELSE LET rest == Render(buflen, ln, (lpos + take) % ln, vol1, ltarget,
                                left1, lstep, frames_remaining - take)
             IN  [rest EXCEPT !.out = outHere \o rest.out]

\* the callback's rendering with the locals of its snapshot
Rendered ==
    Render(cb.loop.len, cb.n, cb.pos, cb.vol, cb.vol_target, cb.fade_left,
           cb.fade_step, cb.frames)

\* lines 344-391: the rendering, then the commit under the lock; an
\* exception raised by numpy leaves the callback and PortAudio stops the
\* stream
CbRender ==
    /\ cbpc = "render"
    /\ cbpc' = "idle"
    /\ IF Rendered.ok
       THEN /\ pos' = Rendered.pos
            /\ vol' = Rendered.vol
            /\ vol_target' = cb.vol_target
            /\ fade_samples_left' = Rendered.fade_left
            /\ fade_step' = cb.fade_step
            /\ out' = Rendered.out
            /\ rendered' = rendered + cb.frames
            /\ stream' = stream
       ELSE /\ stream' = FALSE
            /\ out' = <<>>
            /\ UNCHANGED <<pos, vol, vol_target, fade_samples_left,
                           fade_step, rendered>>
    /\ UNCHANGED <<loop, sr, n, user_enabled, suppression_count,
                   resume_timer, timers, cb, loadgen, cbclean, owed, stale,
                   nlcalls, enabled_ret, nblocks, nfades>>
    /\ UNCHANGED <<schedVars, frameVars, unitVars>>
    /\ UNCHANGED pairVars

LoopNext ==
    \/ \E f \in LoopFiles : ReloadLoop(f)
    \/ \E e \in BOOLEAN, fade_ms \in FadeMs : SetEnabled(e, fade_ms)
    \/ \E fade_ms \in FadeMs : SuppressForSession(fade_ms)
    \/ \E delay \in Delays : ReleaseSuppression(delay)
    \/ CancelAllSuppression
    \/ \E i \in TimerIds : TimerExpires(i)
    \/ \E i \in TimerIds : TimerRelease(i)
    \/ \E frames \in 1..MaxFrames : CbBegin(frames)
    \/ CbLock
    \/ CbRender

\* the objects after construction, whatever the loop file is
LoopStart == Init /\ FrameInit /\ LoopInit /\ UnitIdle

SpecLoop == LoopStart /\ [][LoopNext]_vars

\* ----------------------------------------- properties of the loop engine
\* the callback finishes (renders and commits) in this step
CallbackEnds == cbpc = "render" /\ cbpc' = "idle"

\* C15: the buffer a callback renders from (read at line 328) and the
\* length and position of its snapshot (lines 337-338) belong to the same
\* load.
NoTornRead == cbpc = "render" => cb.loop.gen = cb.gen

\* C16: when a callback that no control call interleaved has rendered the
\* last sample of a fade (samples_remaining reaches 0), the volume equals
\* the target, and so the later samples are rendered at the target gain.
FadeEndsOnTarget ==
    [][(CallbackEnds /\ cbclean /\ cb.fade_left > 0
          /\ fade_samples_left' = 0)
          => vol' = vol_target']_vars

\* C17: with rendered the number of frames rendered since the buffer was
\* loaded and the read position at rendered mod N, a callback that no
\* control call interleaved renders, for any block size, the frames
\* loop[j mod N] for j = rendered, rendered + 1, ... (continuing at index 0
\* after the last frame of the buffer, none dropped or duplicated), leaves
\* the position at (frames rendered) mod N, and at constant volume gives
\* every frame the gain vol.
WrapAroundExact ==
    [][(CallbackEnds /\ cbclean /\ pos = rendered % n) =>
          /\ stream'
          /\ Len(out') = cb.frames
          /\ \A k \in 1..cb.frames : out'[k][1] = (rendered + k - 1) % n
          /\ rendered' = rendered + cb.frames
          /\ pos' = rendered' % n
          /\ (cb.fade_left = 0 =>
                \A k \in 1..cb.frames : out'[k][2] = vol)]_vars

\* a callback has rendered, at a constant volume above 0, a block that
\* crosses the end of the buffer
WrappedAtConstantVolume ==
    /\ cbpc = "idle"
    /\ cbclean
    /\ rendered > n
    /\ pos = rendered % n
    /\ vol > 0
    /\ \A k \in 1..Len(out) : out[k][2] = vol
    /\ \E k \in 1..(Len(out) - 1) : out[k][1] = n - 1 /\ out[k + 1][1] = 0

\* C18: a callback that starts after the control calls and runs without
\* one of them interleaving leaves the fade target at 1 when the loop is
\* enabled, not suppressed and loaded, and at 0 otherwise; without a buffer
\* the target is 0.
FadeTargetFollowsPlayCondition ==
    [][/\ (CallbackEnds /\ cbclean) =>
             vol_target' =
                IF user_enabled /\ suppression_count = 0 /\ loop # NoLoop
                THEN VolUnit ELSE 0
       /\ (loop' = NoLoop => vol_target' = 0)]_vars

\* a callback has run to its end on an enabled, loaded and suppressed
\* loop, and has left the target at 0
SuppressedTargetZero ==
    /\ cbpc = "idle"
    /\ cbclean
    /\ rendered > 0
    /\ user_enabled
    /\ loop # NoLoop
    /\ suppression_count > 0
    /\ vol_target = 0

\* C19: every accepted release_suppression(delay) leads to its decrement:
\* when no resume timer is left, no decrement is still owed (owed counts the
\* accepted delayed releases whose decrement has not happened, as far as
\* the count allows, since the last suppress or cancel_all).
EveryReleaseDecrements == (LiveTimers(timers) = {}) => owed = 0

\* C20: the _release of a timer scheduled before the last
\* suppress_for_session() (stale) does not change the suppression count.
StaleReleaseIgnored ==
    [][\A i \in TimerIds :
          (timers[i] = "fired" /\ timers'[i] = "unused" /\ i \in stale)
             => suppression_count' = suppression_count]_vars

\* C21: when every suppress_for_session() has been followed by its own
\* release_suppression(delay) and every delay has elapsed (no resume timer
\* is left), the suppression count is 0.
BalancedCounter ==
    (paired /\ sessions = 0 /\ LiveTimers(timers) = {})
        => suppression_count = 0

\* the fields of the loop engine that its callers and its callback share
engineVars == <<loop, sr, n, pos, user_enabled, suppression_count, vol,
                vol_target, fade_samples_left, fade_step, resume_timer,
                stream, timers>>

\* C33: the read position changes only when a render callback commits or
\* when a (re)load puts it at 0, so no set_enabled(), suppress_for_session(),
\* release_suppression() or cancel_all_suppression() moves it; a
\* set_enabled(x) returns False exactly when x is the current state, and
\* then changes no field of the engine.
ControlKeepsPosition ==
    [][/\ pos' # pos => (CallbackEnds \/ (loadgen' # loadgen /\ pos' = 0))
       /\ (enabled_ret' = {FALSE} /\ nlcalls' # nlcalls) =>
              UNCHANGED engineVars
       /\ (enabled_ret' = {TRUE} /\ nlcalls' # nlcalls) =>
              user_enabled' # user_enabled]_vars

\* set_enabled(x) has returned False in the middle of a fade, with the
\* read position inside the buffer
RepeatedEnableMidFade ==
    /\ enabled_ret = {FALSE}
    /\ cbpc = "idle"
    /\ pos > 0
    /\ fade_samples_left > 0
    /\ nlcalls >= 2

\* the volume fields as the engine holds them, and as the running
\* callback read them in its snapshot
SharedFade == <<vol, vol_target, fade_samples_left, fade_step>>
SnapshotFade == <<cb.vol, cb.vol_target, cb.fade_left, cb.fade_step>>

\* C36: when a control call has changed the volume fields since the
\* snapshot of the running callback, the commit of that callback leaves
\* volume, target, samples_remaining and step as the call set them; when
\* the buffer was reloaded since the snapshot, the commit leaves the
\* position the reload set.
CommitKeepsControlChanges ==
    [][CallbackEnds =>
          /\ SharedFade # SnapshotFade => UNCHANGED SharedFade
          /\ cb.gen # loop.gen => UNCHANGED pos]_vars

\* C37: whenever a buffer is loaded, 0 <= position < buffer length.
PositionInsideBuffer == loop # NoLoop => (0 <= pos /\ pos < n)

\* ====================================================================
\* timeline.py: Timeline.from_json, the four normalisers and _interp,
\* as functions of their argument.  Times inside a document are counted
\* in ticks of 1/FPS second; angles and offsets are in hundredths of a
\* degree and jaw openings in hundredths of a percent, so that every
\* value the bounded documents produce is an integer.
MaxEntries == 2
MaxDocTime == 3
MaxKeys == 3

FPS == 60
CENTER_DEG == 9000
JAW_MIN == 0
JAW_MAX == 18500
\* 100.0, the top of the "percentage-like" range
PctFull == 10000

\* Hardware.SPECS["jaw"].min_deg and .max_deg
HwJawMin == 11000
HwJawMax == 18500

Shapes == {"timeline", "keyframes", "frames", "channels"}
JawPcts == {0, 5000, PctFull}
Offsets == {-1000, 2000}
EyeOffsets == {500}

\* one entry of motion content: a time and the four values at that time
Samples == [time : 0..MaxDocTime, jaw : JawPcts, neck : Offsets,
            eye_l : EyeOffsets, eye_r : EyeOffsets]

SeqsUpTo(S, k) == UNION {[1..m -> S] : m \in 0..k}

Docs == [shape : Shapes, entries : SeqsUpTo(Samples, MaxEntries)]

\* int(t * 1000) for t = k / FPS
TimestampMs(k) == (k * 1000) \div FPS

\* bisect.bisect_left(times, x, lo, hi), with 0-based lo and hi
RECURSIVE Bisect(_, _, _, _)
Bisect(times, x, lo, hi) ==
    IF lo < hi
    THEN LET mid == (lo + hi) \div 2
         IN  IF times[mid + 1] < x
             THEN Bisect(times, x, mid + 1, hi)
             ELSE Bisect(times, x, lo, mid)
    ELSE lo

BisectLeft(times, x) == Bisect(times, x, 0, Len(times))

\* an interpolation whose weight is taken from the right-hand keyframe
BlendFromRight(t0, t1, a0, a1, t) ==
    IF t1 - t0 # 0
    THEN [num |-> a0 * (t1 - t0) + (t1 - t) * (a1 - a0), den |-> t1 - t0]
    ELSE [num |-> a0, den |-> 1]

\* alpha = (t - t0) / (t1 - t0) if (t1 - t0) else 0.0, and
\* a0 + alpha * (a1 - a0), as the fraction num / den (lines 28-29)
Blend(t0, t1, a0, a1, t) ==
    IF t1 - t0 # 0
    THEN [num |-> a0 * (t1 - t0) + (t - t0) * (a1 - a0), den |-> t1 - t0]
    ELSE [num |-> a0, den |-> 1]

\* _interp(keyframes, t): the result is the fraction num / den
Interp(keyframes, t) ==
    IF keyframes = <<>>
    THEN [num |-> CENTER_DEG, den |-> 1]
    ELSE LET times == [k \in 1..Len(keyframes) |-> keyframes[k].time]
             angles == [k \in 1..Len(keyframes) |-> keyframes[k].angle]
         IN  IF t <= times[1]
             THEN [num |-> angles[1], den |-> 1]
             ELSE IF t >= times[Len(times)]
             THEN [num |-> angles[Len(angles)], den |-> 1]
             ELSE LET i == BisectLeft(times, t)
                  IN  Blend(times[i], times[i + 1],
                            angles[i], angles[i + 1], t)

\* the value of a fraction, cut to a whole number of hundredths
Centi(r) ==
    IF r.den < 0 THEN (-r.num) \div (-r.den) ELSE r.num \div r.den

\* lines 54-62: one entry of the "timeline" list
TimelineFrame(f) ==
    [timestamp_ms |-> TimestampMs(f.time),
     jaw_deg |-> JAW_MAX - (f.jaw * (JAW_MAX - JAW_MIN)) \div PctFull,
     neck_pan_deg |-> CENTER_DEG + f.neck,
     eye_left_deg |-> CENTER_DEG + f.eye_l,
     eye_right_deg |-> CENTER_DEG + f.eye_r]

NormalizeFromTimeline(entries) ==
    [i \in 1..Len(entries) |-> TimelineFrame(entries[i])]

\* "if 0.0 <= jaw <= 100.0: jaw = JAW_MIN + (jaw / 100.0) * (...)"
JawFromValue(jaw) ==
    IF 0 <= jaw /\ jaw <= PctFull
    THEN JAW_MIN + (jaw * (JAW_MAX - JAW_MIN)) \div PctFull
    ELSE jaw

\* lines 109-124: one entry of the "frames" list
FramesFrame(f) ==
    [timestamp_ms |-> TimestampMs(f.time),
     jaw_deg |-> JawFromValue(f.jaw),
     neck_pan_deg |-> f.neck + CENTER_DEG,
     eye_left_deg |-> f.eye_l + CENTER_DEG,
     eye_right_deg |-> f.eye_r + CENTER_DEG]

NormalizeFromFrames(entries) ==
    [i \in 1..Len(entries) |-> FramesFrame(entries[i])]

\* the keyframe array of one channel, in the order of the document
Track(entries, field) ==
    [i \in 1..Len(entries) |->
        [time |-> entries[i].time, angle |-> entries[i][field]]]

\* duration = max(0.0, arr[-1]["time"]), in ticks
LastKeyTime(entries) ==
    IF entries = <<>> THEN 0 ELSE entries[Len(entries)].time

\* nframes = max(1, int(duration * FPS))
FrameTotal(entries) ==
    IF LastKeyTime(entries) < 1 THEN 1 ELSE LastKeyTime(entries)

\* lines 86-100 and 149-162: the frame sampled at tick i
SampledFrame(entries, i) ==
    [timestamp_ms |-> TimestampMs(i),
     jaw_deg |-> JawFromValue(Centi(Interp(Track(entries, "jaw"), i))),
     neck_pan_deg |->
         Centi(Interp(Track(entries, "neck"), i)) + CENTER_DEG,
     eye_left_deg |->
         Centi(Interp(Track(entries, "eye_l"), i)) + CENTER_DEG,
     eye_right_deg |->
         Centi(Interp(Track(entries, "eye_r"), i)) + CENTER_DEG]

NormalizeFromKeyframesRoot(entries) ==
    [k \in 1..(FrameTotal(entries) + 1) |-> SampledFrame(entries, k - 1)]

NormalizeFromTopLevelChannels(entries) ==
    [k \in 1..(FrameTotal(entries) + 1) |-> SampledFrame(entries, k - 1)]

\* "if not any(channels.values()): raise ValueError"
Accepted(d) == ~(d.shape = "channels" /\ d.entries = <<>>)

\* the dispatch of Timeline.from_json (lines 195-209)
FramesOf(d) ==
    CASE d.shape = "timeline" -> NormalizeFromTimeline(d.entries)
      [] d.shape = "keyframes" -> NormalizeFromKeyframesRoot(d.entries)
      [] d.shape = "frames" -> NormalizeFromFrames(d.entries)
      [] OTHER -> NormalizeFromTopLevelChannels(d.entries)

\* keyframe arrays in non-decreasing order of time
KeyAngles == {0, 6000}
Keys == [time : 0..MaxDocTime, angle : KeyAngles]
SortedByTime(s) ==
    \A i \in 1..Len(s), j \in 1..Len(s) : i < j => s[i].time <= s[j].time
KeyArrays == {s \in SeqsUpTo(Keys, MaxKeys) : s # <<>> /\ SortedByTime(s)}
QueryTimes == (-1)..(MaxDocTime + 1)

\* a document is about to be loaded, or _interp is about to be called
TimelineInit ==
    /\ tl_frames = <<>>
    /\ interp_ret = {}
    /\ \/ /\ tpc = "json"
          /\ doc \in Docs
          /\ kf = <<>>
          /\ qt = 0
       \/ /\ tpc = "interp"
          /\ doc = NoDoc
          /\ kf \in KeyArrays
          /\ qt \in QueryTimes

\* Timeline.from_json(path) on the document
FromJson ==
    /\ tpc = "json"
    /\ IF Accepted(doc)
       THEN /\ tl_frames' = FramesOf(doc)
            /\ tpc' = "loaded"
       ELSE /\ tpc' = "raised"
            /\ UNCHANGED tl_frames
    /\ UNCHANGED <<doc, kf, qt, interp_ret>>
    /\ UNCHANGED <<schedVars, frameVars, loopVars, recvVars, gazeVars, hwVars,
                   paceVars, centreVars>>

\* _interp(kf, qt)
InterpCall ==
    /\ tpc = "interp"
    /\ interp_ret' = {Interp(kf, qt)}
    /\ tpc' = "returned"
    /\ UNCHANGED <<doc, kf, qt, tl_frames>>
    /\ UNCHANGED <<schedVars, frameVars, loopVars, recvVars, gazeVars, hwVars,
                   paceVars, centreVars>>

TimelineNext ==
    \/ FromJson
    \/ InterpCall

TimelineStart ==
    /\ Init /\ FrameInit /\ LoopInitWith("short")
    /\ TimelineInit /\ GazeIdle /\ HwIdle /\ PaceIdle /\ RecvIdle /\ CentreIdle

SpecTimeline == TimelineStart /\ [][TimelineNext]_vars

\* C22: the frames of every accepted document are in non-decreasing
\* order of timestamp_ms, whatever the order of the entries in the input.
FramesSortedByTimestamp ==
    tpc = "loaded" =>
        \A i \in 1..Len(tl_frames), j \in 1..Len(tl_frames) :
            i < j => tl_frames[i].timestamp_ms <= tl_frames[j].timestamp_ms

\* motion content: entries at strictly increasing times
StrictlyByTime(s) ==
    \A i \in 1..Len(s), j \in 1..Len(s) : i < j => s[i].time < s[j].time

SameAngles(f, g) ==
    /\ f.jaw_deg = g.jaw_deg
    /\ f.neck_pan_deg = g.neck_pan_deg
    /\ f.eye_left_deg = g.eye_left_deg
    /\ f.eye_right_deg = g.eye_right_deg

AgreeWhereCommon(fs, gs) ==
    \A i \in 1..Len(fs), j \in 1..Len(gs) :
        fs[i].timestamp_ms = gs[j].timestamp_ms => SameAngles(fs[i], gs[j])

\* C23: the same motion content written in any other of the four shapes
\* normalises to frames with the same four angles at every timestamp the
\* two outputs have in common.
ShapesAgree ==
    (tpc = "loaded" /\ StrictlyByTime(doc.entries)) =>
        \A s \in Shapes :
            LET other == [shape |-> s, entries |-> doc.entries]
            IN  Accepted(other) => AgreeWhereCommon(tl_frames, FramesOf(other))

\* the fraction r has the value a
IsValue(r, a) == r.num = a * r.den

\* _interp has returned for a keyframe array sorted by time
InterpReturned == tpc = "returned" /\ SortedByTime(kf) /\ kf # <<>>

\* the result at the first keyframe, at a keyframe time, and between two
\* consecutive keyframes
InterpInsideRule(r) ==
    /\ qt <= kf[1].time => IsValue(r, kf[1].angle)
    /\ (\E k \in 1..Len(kf) : kf[k].time = qt) =>
           \E k \in 1..Len(kf) : kf[k].time = qt /\ IsValue(r, kf[k].angle)
    /\ \A k \in 1..(Len(kf) - 1) :
           (kf[k].time < qt /\ qt < kf[k + 1].time) =>
               r.num * (kf[k + 1].time - kf[k].time) =
                   r.den * (kf[k].angle * (kf[k + 1].time - kf[k].time)
                            + (qt - kf[k].time)
                                * (kf[k + 1].angle - kf[k].angle))

EntryFrame(i) ==
    IF doc.shape \in {"timeline", "frames"}
    THEN tl_frames[i]
    ELSE tl_frames[doc.entries[i].time + 1]

\* C25: in every accepted shape an opening percentage is normalised to a
\* jaw_deg inside the hardware's jaw range 110..185, non-increasing in the
\* percentage, 100 % giving the minimum and 0 % the maximum angle; neck
\* and eye offsets d are normalised to 90 + d.
JawOntoHardwareRange ==
    (tpc = "loaded" /\ StrictlyByTime(doc.entries)) =>
        \A i \in 1..Len(doc.entries) :
            LET e == doc.entries[i]
                f == EntryFrame(i)
            IN  /\ HwJawMin <= f.jaw_deg
                /\ f.jaw_deg <= HwJawMax
                /\ e.jaw = PctFull => f.jaw_deg = HwJawMin
                /\ e.jaw = 0 => f.jaw_deg = HwJawMax
                /\ \A j \in 1..Len(doc.entries) :
                       e.jaw <= doc.entries[j].jaw =>
                           f.jaw_deg >= EntryFrame(j).jaw_deg
                /\ f.neck_pan_deg = CENTER_DEG + e.neck
                /\ f.eye_left_deg = CENTER_DEG + e.eye_l
                /\ f.eye_right_deg = CENTER_DEG + e.eye_r

\* ====================================================================
\* gaze_receiver.py: the stored command and get_command() with the clock.
\* Times are in milliseconds; the clock moves by ClockStep.
MaxClock == 12
LastArrival == 4
ClockStep == 50
DefaultTtlMs == 250

\* "ts" and "ttl_ms" of a datagram: a field is {} when absent
TsOffsets == {-100, 0, 50}
TtlValues == {0, 100, 300}
Datagrams(now) ==
    [mode : {"track"},
     ts : {{}} \cup {{now + o} : o \in TsOffsets},
     ttl_ms : {{}} \cup {{v} : v \in TtlValues}]

TheOne(S) == CHOOSE x \in S : TRUE

\* a freshness test that accepts every command
AlwaysFresh(cmd, now) == TRUE

\* lines 144-148: "now - ts > ttl_ms / 1000.0" does not hold
Fresh(cmd, now) ==
    LET ts == IF cmd.ts = {} THEN now ELSE TheOne(cmd.ts)
        ttl_ms == IF cmd.ttl_ms = {} THEN DefaultTtlMs
                  ELSE TheOne(cmd.ttl_ms)
    IN  ~(now - ts > ttl_ms)

\* get_command(): the set holding the returned command, {} for None
GetCommandAt(latest_cmd, now, is_deferred) ==
    IF is_deferred THEN {}
    ELSE IF latest_cmd = {} THEN {}
    ELSE IF Fresh(TheOne(latest_cmd), now) THEN latest_cmd
    ELSE {}

GazeInit ==
    /\ stored = {}
    /\ clock = 0
    /\ got = {}
    /\ deferred \in BOOLEAN
    /\ gzpc = "idle"

\* _loop stores a datagram (lines 107-117); a deferred receiver has no
\* receive thread
GazeStore ==
    /\ ~deferred
    /\ clock <= LastArrival * ClockStep
    /\ \E msg \in Datagrams(clock) : stored' = {msg}
    /\ gzpc' = "idle"
    /\ UNCHANGED <<clock, got, deferred>>
    /\ UNCHANGED <<schedVars, frameVars, loopVars, recvVars, timelineVars,
                   hwVars, paceVars, centreVars>>

\* time passes
ClockAdvance ==
    /\ clock < MaxClock * ClockStep
    /\ clock' = clock + ClockStep
    /\ gzpc' = "idle"
    /\ UNCHANGED <<stored, got, deferred>>
    /\ UNCHANGED <<schedVars, frameVars, loopVars, recvVars, timelineVars,
                   hwVars, paceVars, centreVars>>

\* get_command() (lines 125-150)
GetCommandCall ==
    /\ got' = GetCommandAt(stored, clock, deferred)
    /\ gzpc' = "returned"
    /\ UNCHANGED <<stored, clock, deferred>>
    /\ UNCHANGED <<schedVars, frameVars, loopVars, recvVars, timelineVars,
                   hwVars, paceVars, centreVars>>

\* the consumer has used the result and goes round its loop to poll again
\* (sync_player.py lines 179-185: sleep, continue, get_command())
PollAgain ==
    /\ gzpc = "returned"
    /\ gzpc' = "idle"
    /\ UNCHANGED <<stored, clock, got, deferred>>
    /\ UNCHANGED <<schedVars, frameVars, loopVars, recvVars, timelineVars,
                   hwVars, paceVars, centreVars>>

GazeNext ==
    \/ GazeStore
    \/ ClockAdvance
    \/ GetCommandCall
    \/ PollAgain

GazeStart ==
    /\ Init /\ FrameInit /\ LoopInitWith("short")
    /\ TimelineIdle /\ GazeInit /\ HwIdle /\ PaceIdle /\ RecvIdle /\ CentreIdle

SpecGaze == GazeStart /\ [][GazeNext]_vars

\* the stored command carries a "ts" older than its "ttl_ms" (250 when
\* absent) at time now
OlderThanTtl(cmd, now) ==
    /\ cmd.ts # {}
    /\ \A ts \in cmd.ts :
           IF cmd.ttl_ms = {} THEN now - ts > 250
           ELSE \A ttl \in cmd.ttl_ms : now - ts > ttl

\* C26: get_command() returns the stored command only if now - ts is at
\* most ttl_ms (250 ms when absent), returns None when the stored command
\* is older than that or when nothing was received, and leaves the
\* stored command as it is.
GetCommandFreshOnly ==
    [][gzpc' = "returned" =>
          /\ stored' = stored
          /\ got' \in {{}, stored}
          /\ got' # {} => \A cmd \in stored : ~OlderThanTtl(cmd, clock)
          /\ stored = {} => got' = {}
          /\ (\E cmd \in stored : OlderThanTtl(cmd, clock)) => got' = {}]_vars

\* get_command() has just refused a command whose age is above its own
\* ttl_ms of 100 ms and was not one clock step earlier
StaleCommandRefused ==
    /\ gzpc = "returned"
    /\ got = {}
    /\ \E cmd \in stored :
           /\ cmd.ttl_ms = {100}
           /\ OlderThanTtl(cmd, clock)
           /\ ~OlderThanTtl(cmd, clock - ClockStep)

\* Time passes, and the consumers poll get_command() again and again (the
\* follower loop every 20 ms, lines 179-186 of sync_player.py); datagrams
\* stop arriving after LastArrival clock steps.  The clock runs long
\* enough for every command that carries a ts to outlive its ttl_ms:
\* arrival, plus the largest ts offset, plus the largest ttl.
SpecGazeLive ==
    /\ GazeStart
    /\ [][GazeNext]_vars
    /\ WF_vars(ClockAdvance)
    /\ WF_vars(GetCommandCall)
    /\ WF_vars(PollAgain)

\* C39: once the sender is silent, there is a time after which
\* get_command() returns None forever, whatever command is stored.
StoredEventuallyStale == <>[](got = {})

\* ====================================================================
\* rpi_hardware.py: ServoSpec and Hardware.set_named_angle.  Angles are in
\* tenths of a degree, pulses in microseconds.
MinUs == 500
MaxUs == 2500
FullTurn == 1800
MinDeg(s) ==
    CASE s = "jaw" -> 1100
      [] s \in {"eye_left", "eye_right"} -> 600
      [] OTHER -> 0
MaxDeg(s) ==
    CASE s = "jaw" -> 1850
      [] s \in {"eye_left", "eye_right"} -> 1200
      [] OTHER -> 1800

\* angles a caller supplies, and offsets given to set_pitch_offset
RequestedDegs == {-100, 0, 600, 900, 1150, 1800, 1850, 2700}
PitchOffsets == {-2000, -140, 0, 700}

\* ServoSpec.clamp (lines 46-47)
ServoClamp(s, deg) ==
    LET upper == IF deg < MaxDeg(s) THEN deg ELSE MaxDeg(s)
    IN  IF upper > MinDeg(s) THEN upper ELSE MinDeg(s)

\* the offset added with no clamp after it
ShiftedAngle(s, deg, offset) == deg + offset

\* "d = self.clamp(deg + self.pitch_offset)" (line 50)
ConvertedAngle(s, deg, offset) == ServoClamp(s, deg + offset)

\* "self.min_us + (d / 180.0) * span" (lines 51-52), whole microseconds
PulseUs(d) == MinUs + (d * (MaxUs - MinUs)) \div FullTurn

\* set_pitch_offset(servo_name, offset) (lines 138-144)
SetPitchOffset(s, offset) ==
    /\ pitch_offset' = [pitch_offset EXCEPT ![s] = offset]
    /\ UNCHANGED <<hw_name, hw_deg, hw_d, hw_us, hw_logged>>
    /\ UNCHANGED <<schedVars, frameVars, loopVars, recvVars, timelineVars,
                   gazeVars, paceVars, centreVars>>

\* set_named_angle(name, deg) (lines 110-118)
SetNamedAngle(s, deg) ==
    LET clamped_deg == ServoClamp(s, deg)
        d == ConvertedAngle(s, clamped_deg, pitch_offset[s])
    IN  /\ hw_name' = s
        /\ hw_deg' = deg
        /\ hw_d' = {d}
        /\ hw_us' = {PulseUs(d)}
        /\ hw_logged' = {clamped_deg}
        /\ UNCHANGED pitch_offset
        /\ UNCHANGED <<schedVars, frameVars, loopVars, recvVars, timelineVars,
                       gazeVars, paceVars, centreVars>>

HwNext ==
    \/ \E s \in Servos, offset \in PitchOffsets : SetPitchOffset(s, offset)
    \/ \E s \in Servos, deg \in RequestedDegs : SetNamedAngle(s, deg)

HwStart ==
    /\ Init /\ FrameInit /\ LoopInitWith("short")
    /\ TimelineIdle /\ GazeIdle /\ HwIdle /\ PaceIdle /\ RecvIdle /\ CentreIdle

SpecHw == HwStart /\ [][HwNext]_vars

\* C27: the angle converted into the pulse of a set_named_angle call lies
\* within the declared range of the servo, whatever angle was requested
\* and whatever pitch offset is configured.
ConvertedAngleInRange ==
    \A d \in hw_d : MinDeg(hw_name) <= d /\ d <= MaxDeg(hw_name)

\* a requested angle inside the range of the left eye was pushed below
\* the range by the pitch offset, and the minimum was converted
OffsetClamped ==
    /\ hw_name = "eye_left"
    /\ MinDeg("eye_left") <= hw_deg
    /\ hw_deg <= MaxDeg("eye_left")
    /\ hw_deg + pitch_offset["eye_left"] < MinDeg("eye_left")
    /\ hw_d = {MinDeg("eye_left")}
    /\ hw_us = {PulseUs(MinDeg("eye_left"))}

\* C40: every pulse width handed to the PWM controller lies within
\* [min_us, max_us] of the servo (500..2500 microseconds).
PulseInRange == \A us \in hw_us : MinUs <= us /\ us <= MaxUs

\* ====================================================================
\* the fade envelope of the loop engine under direct _set_fade calls
\* targets given to _set_fade: below 0.0, 0.0, 1.0 and above 1.0
FadeTargets == {-VolUnit, 0, VolUnit, 2 * VolUnit}

\* _set_fade(target, fade_ms) called with the lock held (lines 217-243)
SetFadeCall(target, fade_ms) ==
    /\ nlcalls < MaxLoopCalls
    /\ RampAllowed(fade_ms)
    /\ nlcalls' = nlcalls + 1
    /\ enabled_ret' = {}
    /\ cbclean' = FALSE
    /\ LET f == SetFade(target, fade_ms)
       IN  /\ vol' = f.vol
           /\ vol_target' = f.vol_target
           /\ fade_samples_left' = f.fade_samples_left
           /\ fade_step' = f.fade_step
    /\ nfades' = RampCount(fade_ms)
    /\ UNCHANGED <<loop, sr, n, pos, user_enabled, suppression_count,
                   resume_timer, stream, timers, cbpc, cb, out, rendered,
                   loadgen, owed, stale, nblocks>>
    /\ UNCHANGED <<schedVars, frameVars, unitVars>>
    /\ UNCHANGED pairVars

FadeNext ==
    \/ \E target \in FadeTargets, fade_ms \in FadeMs :
           SetFadeCall(target, fade_ms)
    \/ \E f \in LoopFiles : ReloadLoop(f)
    \/ \E frames \in 1..MaxFrames : CbBegin(frames)
    \/ CbLock
    \/ CbRender

SpecFade == LoopStart /\ [][FadeNext]_vars

\* C28: in every reachable state of the loop engine the current volume
\* and the target volume are within [0, 1], and so is every gain the
\* callback applied to a sample.
VolumeInUnitRange ==
    /\ 0 <= vol /\ vol <= VolUnit
    /\ 0 <= vol_target /\ vol_target <= VolUnit
    /\ \A k \in 1..Len(out) : 0 <= out[k][2] /\ out[k][2] <= VolUnit

\* a fade reprogrammed in mid-ramp: the only callback so far found a
\* ramp of FadeLen samples, rendered one sample of it and committed, then
\* a _set_fade call programmed a new ramp while samples of the first
\* were still to come
ReprogrammedInMidRamp ==
    /\ cbpc = "idle"
    /\ nblocks = 1
    /\ rendered = 1
    /\ cb.frames = 1
    /\ cb.fade_left = FadeLen
    /\ nfades = 2
    /\ fade_samples_left = FadeLen
    /\ FadeLen > 1

\* ====================================================================
\* sync_player.py, _runner: the pacing of each frame (lines 366-395) and
\* the statistics of the run (lines 474-482).  Delays are in milliseconds.
MaxPaceFrames == 3

\* delay = target_time - time.time() as the frame finds it
PaceDelays == {-200, -51, -50, 0, 1, 30}

\* a lateness test that also counts a delay of exactly -50 ms
CountedAtTolerance(delay) == delay <= -LateToleranceMs

\* "if delay < -0.05" (line 379)
Counted(delay) == delay < -LateToleranceMs

\* "if delay > 0: time.sleep(delay)" (lines 386-387)
SleptFor(delay) == IF delay > 0 THEN delay ELSE 0

\* one iteration of the frame loop that passes the stop check: the delay
\* is computed, the frame is counted as late or slept for, and then
\* commanded (lines 367-395)
PaceFrame(delay) ==
    /\ ppc = "frames"
    /\ frame_count < MaxPaceFrames
    /\ frame_count' = frame_count + 1
    /\ skipped_frames' =
           IF Counted(delay) THEN skipped_frames + 1 ELSE skipped_frames
    /\ pace_log' = Append(pace_log,
                          [delay |-> delay,
                           slept |-> SleptFor(delay),
                           skipped_before |-> skipped_frames,
                           skipped_after |->
                               IF Counted(delay) THEN skipped_frames + 1
                               ELSE skipped_frames,
                           commanded |-> TRUE])
    /\ UNCHANGED <<high_skip, ppc>>
    /\ UNCHANGED <<schedVars, frameVars, loopVars, recvVars, timelineVars,
                   gazeVars, hwVars, centreVars>>

\* the stop check ends the loop on a frame, which is counted but neither
\* timed nor commanded (lines 367, 372-374)
PaceStopped ==
    /\ ppc = "frames"
    /\ frame_count < MaxPaceFrames
    /\ frame_count' = frame_count + 1
    /\ ppc' = "finally"
    /\ UNCHANGED <<skipped_frames, pace_log, high_skip>>
    /\ UNCHANGED <<schedVars, frameVars, loopVars, recvVars, timelineVars,
                   gazeVars, hwVars, centreVars>>

\* the timeline has no further frame
PaceExhausted ==
    /\ ppc = "frames"
    /\ ppc' = "finally"
    /\ UNCHANGED <<frame_count, skipped_frames, pace_log, high_skip>>
    /\ UNCHANGED <<schedVars, frameVars, loopVars, recvVars, timelineVars,
                   gazeVars, hwVars, centreVars>>

\* PLAYBACK_STATS and HIGH_SKIP_RATE (lines 474-482)
PaceStats ==
    /\ ppc = "finally"
    /\ ppc' = "done"
    /\ high_skip' = (frame_count > 0
                         /\ skipped_frames * 100 > 5 * frame_count)
    /\ UNCHANGED <<frame_count, skipped_frames, pace_log>>
    /\ UNCHANGED <<schedVars, frameVars, loopVars, recvVars, timelineVars,
                   gazeVars, hwVars, centreVars>>

PaceNext ==
    \/ \E delay \in PaceDelays : PaceFrame(delay)
    \/ PaceStopped
    \/ PaceExhausted
    \/ PaceStats

PaceStart ==
    /\ Init /\ FrameInit /\ LoopInitWith("short")
    /\ TimelineIdle /\ GazeIdle /\ HwIdle /\ PaceIdle /\ RecvIdle /\ CentreIdle

SpecPace == PaceStart /\ [][PaceNext]_vars

Yaws == {-4000, -310, -210, 0, 200, 210, 300, 310, 4000}

\* dt: one nominal iteration, two of them, and the first iteration after
\* a run, during which last_time was not refreshed (lines 181-183)
DtValues == {20, 40, 1000}

\* LastTarget when the iteration starts: near the lower limit of the
\* eyes, at the centre, and at the upper limit
CentreInit ==
    /\ yaw_in \in [GazeChannels -> Yaws]
    /\ dt_in \in DtValues
    /\ flags_in \in [GazeChannels -> BOOLEAN]
    /\ \E t \in {LowLimit("eye_left") + 10, 9000, HighLimit("neck")} :
           target_before =
               [c \in GazeChannels |-> Clamp(LowLimit(c), HighLimit(c), t)]
    /\ target_after = target_before
    /\ centre_motor = [c \in GazeChannels |-> {}]
    /\ cnpc = "tick"

\* channel c is moved on this iteration (lines 199-206)
CentreMoves(c) == flags_in[c] /\ OutsideDeadzone(c, yaw_in[c])

\* the iteration: every gaze channel in turn (lines 194-299)
CentreTick ==
    /\ cnpc = "tick"
    /\ cnpc' = "done"
    /\ target_after' =
           [c \in GazeChannels |->
               IF CentreMoves(c)
               THEN CenterTarget(c, yaw_in[c], dt_in, target_before[c])
               ELSE target_before[c]]
    /\ centre_motor' =
           [c \in GazeChannels |->
               IF CentreMoves(c)
               THEN {CenterTarget(c, yaw_in[c], dt_in, target_before[c])}
               ELSE {}]
    /\ UNCHANGED <<yaw_in, dt_in, flags_in, target_before>>
    /\ UNCHANGED <<schedVars, frameVars, loopVars, recvVars, timelineVars,
                   gazeVars, hwVars, paceVars>>

CentreNext == CentreTick

CentreStart ==
    /\ Init /\ FrameInit /\ LoopInitWith("short")
    /\ TimelineIdle /\ GazeIdle /\ HwIdle /\ PaceIdle /\ RecvIdle /\ CentreInit

SpecCentre == CentreStart /\ [][CentreNext]_vars

\* the correction the rule gives for an error e on channel c:
\* -e * gain, limited to +/- (max_speed * dt)
RuleCorrection(c, e) ==
    LET wanted == IF c = "neck" THEN -((3 * e) \div 10)
                  ELSE -((4 * e) \div 10)
        limit == IF c = "neck" THEN (1500 * dt_in) \div 1000
                 ELSE (6000 * dt_in) \div 1000
    IN  IF wanted > limit THEN limit
        ELSE IF wanted < -limit THEN -limit
        ELSE wanted

\* x brought into the range of channel c
RuleRange(c, x) ==
    LET lo == IF c = "neck" THEN 0 ELSE 6000
        hi == IF c = "neck" THEN 18000 ELSE 12000
    IN  IF x < lo THEN lo ELSE IF x > hi THEN hi ELSE x

\* C30: in a centring iteration, for each enabled channel: an error not
\* above the deadzone (neck 3, eyes 2 degrees) gives no motor command and
\* leaves LastTarget as it was; an error above it gives a correction
\* -error * gain limited to +/- (max_speed * dt), non-zero and of the
\* sign opposite to the error, and the new target is LastTarget +
\* correction brought into the range of the channel.
CentringRule ==
    cnpc = "done" =>
        \A c \in GazeChannels :
            flags_in[c] =>
                LET e == yaw_in[c]
                    dz == IF c = "neck" THEN 300 ELSE 200
                    corr == RuleCorrection(c, e)
                IN  IF e <= dz /\ -e <= dz
                    THEN /\ centre_motor[c] = {}
                         /\ target_after[c] = target_before[c]
                    ELSE /\ corr # 0
                         /\ (e > 0) = (corr < 0)
                         /\ target_after[c] =
                                RuleRange(c, target_before[c] + corr)
                         /\ centre_motor[c] = {target_after[c]}

\* an iteration of 20 ms in which the neck, 0.1 degree outside its
\* deadzone, was moved by the speed limit of 0.3 degree, the left eye,
\* exactly on its deadzone, was left alone, and the right eye, 0.1 degree
\* outside, was moved by the whole proportional correction of 0.84 degree
DeadzoneAndSpeedLimit ==
    /\ cnpc = "done"
    /\ dt_in = 20
    /\ flags_in = [c \in GazeChannels |-> TRUE]
    /\ yaw_in["neck"] = 310
    /\ target_after["neck"] = target_before["neck"] - 30
    /\ centre_motor["neck"] = {target_after["neck"]}
    /\ yaw_in["eye_left"] = 200
    /\ centre_motor["eye_left"] = {}
    /\ yaw_in["eye_right"] = -210
    /\ target_after["eye_right"] = target_before["eye_right"] + 84

\* ====================================================================
\* gaze_receiver.py: the GazeReceiver objects of one process and the class
\* attribute _started_in_process.  The calls are made one after another.
\* A socket is "none", "unbound" (created, bind raised) or "bound"; the
\* receive thread of an object runs exactly while its running event is set.

\* ensure_started() (lines 68-102) on object i; bind_ok tells whether
\* sock.bind succeeds (the socket has SO_REUSEADDR, line 82) or raises
EnsureStarted(rs, started, i, bind_ok) ==
    IF rs[i].running \/ started
    THEN [receivers |-> rs, started |-> started, raised |-> FALSE]
    ELSE IF bind_ok
    THEN [receivers |-> [rs EXCEPT ![i].sock = "bound", ![i].running = TRUE],
          started |-> TRUE, raised |-> FALSE]
    ELSE [receivers |-> [rs EXCEPT ![i].sock = "unbound"],
          started |-> started, raised |-> TRUE]

\* GazeReceiver(host, port, autostart) (lines 48-66); is_deferred is what
\* _is_flask_debug_parent() finds in the environment.  When the
\* constructor raises, the caller gets no object.
Construct(i, autostart, is_deferred, bind_ok) ==
    /\ ~receivers[i].made
    /\ LET fresh == [receivers EXCEPT
                        ![i] = [NoReceiver EXCEPT !.made = TRUE,
                                                  !.deferred = is_deferred]]
           r == IF autostart /\ ~is_deferred
                THEN EnsureStarted(fresh, started_in_process, i, bind_ok)
                ELSE [receivers |-> fresh, started |-> started_in_process,
                      raised |-> FALSE]
       IN  /\ receivers' = IF r.raised THEN receivers ELSE r.receivers
           /\ started_in_process' = r.started
    /\ UNCHANGED <<schedVars, frameVars, loopVars, timelineVars, gazeVars,
                   hwVars, paceVars, centreVars>>

\* ensure_started() called on object i
EnsureStartedCall(i, bind_ok) ==
    /\ receivers[i].made
    /\ LET r == EnsureStarted(receivers, started_in_process, i, bind_ok)
       IN  /\ receivers' = r.receivers
           /\ started_in_process' = r.started
    /\ UNCHANGED <<schedVars, frameVars, loopVars, timelineVars, gazeVars,
                   hwVars, paceVars, centreVars>>

\* get_command() on object i (lines 130-136): it starts the listener when
\* the object is neither running nor deferred; what it returns does not
\* change the object
ReceiverGetCommand(i, bind_ok) ==
    /\ receivers[i].made
    /\ LET r == IF ~receivers[i].running /\ ~receivers[i].deferred
                THEN EnsureStarted(receivers, started_in_process, i, bind_ok)
                ELSE [receivers |-> receivers,
                      started |-> started_in_process, raised |-> FALSE]
       IN  /\ receivers' = r.receivers
           /\ started_in_process' = r.started
    /\ UNCHANGED <<schedVars, frameVars, loopVars, timelineVars, gazeVars,
                   hwVars, paceVars, centreVars>>

\* stop() on object i (lines 152-165): the event is cleared, the thread
\* leaves its loop and is joined, the socket is closed, and the class
\* attribute is reset whatever the object had done
ReceiverStop(i) ==
    /\ receivers[i].made
    /\ receivers' = [receivers EXCEPT ![i].running = FALSE,
                                      ![i].sock = "none"]
    /\ started_in_process' = FALSE
    /\ UNCHANGED <<schedVars, frameVars, loopVars, timelineVars, gazeVars,
                   hwVars, paceVars, centreVars>>

RecvNext ==
    \/ \E i \in Instances, autostart, is_deferred, bind_ok \in BOOLEAN :
          Construct(i, autostart, is_deferred, bind_ok)
    \/ \E i \in Instances, bind_ok \in BOOLEAN : EnsureStartedCall(i, bind_ok)
    \/ \E i \in Instances, bind_ok \in BOOLEAN :
          ReceiverGetCommand(i, bind_ok)
    \/ \E i \in Instances : ReceiverStop(i)

RecvStart ==
    /\ Init /\ FrameInit /\ LoopInitWith("short")
    /\ TimelineIdle /\ GazeIdle /\ HwIdle /\ PaceIdle /\ RecvIdle /\ CentreIdle

SpecRecv == RecvStart /\ [][RecvNext]_vars

\* object i holds a bound socket and its receive thread runs
Listening(i) == receivers[i].running /\ receivers[i].sock = "bound"

\* C34: at any time at most one GazeReceiver object of the process holds a
\* bound UDP socket with a running receive thread.
OneListenerPerProcess ==
    Cardinality({i \in Instances : Listening(i)}) <= 1

====
